---- MODULE Spec2Model ----
(***************************************************************************)
(* Verification model of two pure cores of versatool-hub:                  *)
(*   - the symmetric crypto codec of src/utils/clipboard.ts                *)
(*     (deriveKeys, calculateMAC, encryptText, decryptText), and           *)
(*   - the LCS aligner computeDiff of src/pages/text/TextDiff.tsx.         *)
(*                                                                         *)
(* crypto-js is modelled symbolically: PBKDF2 words and cipher blocks are  *)
(* terms that remember what they were made from, HMAC output is the        *)
(* printed term of (key, data).  Distinct inputs give distinct outputs     *)
(* (no collisions), and a cipher block decrypts only under the key, the    *)
(* algorithm and the chaining value it was made with.  Hex, UTF-8, PKCS#7  *)
(* and the '|' join are computed on concrete characters and bytes.         *)
(* Strings are well-formed Unicode (no lone surrogates).                   *)
(***************************************************************************)
EXTENDS Integers, Sequences, FiniteSets, TLC

VARIABLES
    packed,      \* the envelope text handed to decryptText (JSON text)
    enc,         \* inputs of the encryptText call that produced the envelope
    tamper,      \* what was done to the envelope since ("none", "ct", ...)
    dec,         \* inputs of the last decryptText call
    result,      \* outcome of the last encryptText / decryptText call
    calls,       \* library calls made by the last decryptText call, in order
    oldItems,    \* computeDiff: first argument
    newItems,    \* computeDiff: second argument
    script,      \* computeDiff: returned edit script
    aligned,     \* whether script is computeDiff(oldItems, newItems)
    settings,    \* TextDiff: the three normalization flags
    tokText,     \* tokenize: its argument
    tokens,      \* tokenize: returned tokens
    tokenized,   \* whether tokens is tokenize(tokText)
    oldText,     \* TextDiff: the old text
    newText,     \* TextDiff: the new text
    processed,   \* TextDiff: diffResult
    compared,    \* whether processed is the diffResult of the two texts
    length,      \* usePasswordGenerator: length
    options,     \* usePasswordGenerator: options
    password,    \* usePasswordGenerator: password
    drawn,       \* raw random values read by the last generate call
    mounted,     \* whether the hook's first effect has run
    sampleMax,   \* getSecureRandomInt: its argument
    sampleTape,  \* getSecureRandomInt: the raw values the generator gives
    sampleOut,   \* getSecureRandomInt: value returned and raw values read
    qrInput,     \* useQRCode: the input and settings of the latest render
    qrTimer,     \* useQRCode: arguments held by the pending timer, if any
    qrFlight,    \* useQRCode: arguments of the toDataURL calls not yet settled
    qrDataUrl,   \* useQRCode: qrDataUrl
    qrLoading,   \* useQRCode: loading
    qrError,     \* useQRCode: error
    wfInput,     \* WordFrequency: text, mode, limit and language of the latest render
    wfRunId,     \* WordFrequency: currentRunId.current
    wfTimers,    \* WordFrequency: the runs whose timer is pending
    wfStats,     \* WordFrequency: stats
    wfEngine,    \* WordFrequency: engine
    wfAnalyzing, \* WordFrequency: isAnalyzing
    wfExecuted,  \* runs that executed, in order, with what their guard saw
    wfCleared,   \* ids of the runs whose timer was cleared before it expired
    jfJson,      \* JSONFormatter: json, the editor text
    jfError,     \* JSONFormatter: error
    jfPending,   \* JSONFormatter: deferred callbacks not run yet, oldest first
    jfRan,       \* the last deferred callback run: was it overtaken, did it keep the state
    tgSeen,      \* PasswordGen: the options its latest render holds
    tgQueued     \* PasswordGen: option updates queued since that render

cryptoVars == <<packed, enc, tamper, dec, result, calls>>
diffVars == <<oldItems, newItems, script, aligned>>
textVars == <<settings, tokText, tokens, tokenized, oldText, newText, processed, compared>>
pwVars == <<length, options, password, drawn, mounted>>
sampleVars == <<sampleMax, sampleTape, sampleOut>>
qrVars == <<qrInput, qrTimer, qrFlight, qrDataUrl, qrLoading, qrError>>
wfVars == <<wfInput, wfRunId, wfTimers, wfStats, wfEngine, wfAnalyzing, wfExecuted, wfCleared>>
jfVars == <<jfJson, jfError, jfPending, jfRan>>
tgVars == <<tgSeen, tgQueued>>
hookVars == <<sampleVars, qrVars, wfVars, jfVars, tgVars>>
vars == <<packed, enc, tamper, dec, result, calls, oldItems, newItems, script, aligned,
          settings, tokText, tokens, tokenized, oldText, newText, processed, compared,
          length, options, password, drawn, mounted,
          sampleMax, sampleTape, sampleOut,
          qrInput, qrTimer, qrFlight, qrDataUrl, qrLoading, qrError,
          wfInput, wfRunId, wfTimers, wfStats, wfEngine, wfAnalyzing, wfExecuted, wfCleared,
          jfJson, jfError, jfPending, jfRan, tgSeen, tgQueued>>

----------------------------------------------------------------------------
(* Bounds of the model *)

MaxTextLen == 2
NumSeeds == 2
MaxItems == 3
B64Parts == 2
MaxTokChars == 3
MaxDiffChars == 4
MaxPwLength == 6
RawBits == 8
TapeLen == 7
NumTapes == 4

----------------------------------------------------------------------------
(* SECURITY_CONFIG and sizes fixed by the code *)

VERSION == 1
SALT_SIZE_BYTES == 16
IV_SIZE_BYTES == 16
DERIVED_WORDS == 16
ENC_KEY_WORDS == 8
INITIAL_LENGTH == 16
MAX_LENGTH == 128

----------------------------------------------------------------------------
(* Components at rest *)

\* TextDiff before anything is typed: both texts empty, all flags off.
TextIdle ==
    /\ settings = [ignoreCase |-> FALSE, ignorePunctuation |-> FALSE, ignoreWhitespace |-> FALSE]
    /\ tokText = <<>>
    /\ tokens = <<>>
    /\ tokenized = FALSE
    /\ oldText = <<>>
    /\ newText = <<>>
    /\ processed = <<>>
    /\ compared = FALSE

\* The password generator as PasswordGen mounts it, before its first effect.
PwIdle ==
    /\ length = INITIAL_LENGTH
    /\ options = [uppercase |-> TRUE, lowercase |-> TRUE, numbers |-> TRUE, symbols |-> TRUE,
                  excludeAmbiguous |-> FALSE]
    /\ password = <<>>
    /\ drawn = 0
    /\ mounted = FALSE

\* getSecureRandomInt before any call.
SampleIdle ==
    /\ sampleMax = 1
    /\ sampleTape = <<0>>
    /\ sampleOut = [value |-> 0, next |-> 0]

\* useQRCode not in use: nothing typed, no timer, nothing in flight.
QrIdle ==
    /\ qrInput = <<<<>>, 1>>
    /\ qrTimer = <<>>
    /\ qrFlight = <<>>
    /\ qrDataUrl = <<>>
    /\ qrLoading = FALSE
    /\ qrError = "null"

\* WordFrequency not mounted.
WfIdle ==
    /\ wfInput = <<<<>>, "word", 20, "en">>
    /\ wfRunId = 0
    /\ wfTimers = {}
    /\ wfStats = <<>>
    /\ wfEngine = "Idle"
    /\ wfAnalyzing = FALSE
    /\ wfExecuted = <<>>
    /\ wfCleared = {}

\* JSONFormatter as mounted: empty editor, no error, nothing deferred.
JfIdle ==
    /\ jfJson = <<"blank", <<>>, "">>
    /\ jfError = ""
    /\ jfPending = <<>>
    /\ jfRan = <<>>

\* PasswordGen before its first render is committed.
TgIdle ==
    /\ tgSeen = [uppercase |-> TRUE, lowercase |-> TRUE, numbers |-> TRUE, symbols |-> TRUE,
                 excludeAmbiguous |-> FALSE]
    /\ tgQueued = 0

\* The hooks and pages modelled on their own, at rest.
HooksIdle == SampleIdle /\ QrIdle /\ WfIdle /\ JfIdle /\ TgIdle

----------------------------------------------------------------------------
(* Generic helpers *)

Max(a, b) == IF a >= b THEN a ELSE b

Min(a, b) == IF a <= b THEN a ELSE b

RECURSIVE Flatten(_)
Flatten(ss) == IF ss = <<>> THEN <<>> ELSE Head(ss) \o Flatten(Tail(ss))

SeqsUpTo(S, n) == UNION {[1..k -> S] : k \in 0..n}

Last(s) == s[Len(s)]

----------------------------------------------------------------------------
(* JSON values as JavaScript sees them after JSON.parse.                   *)
(*   t = "absent"  the property is missing (undefined)                     *)
(*   t = "null"    null                                                    *)
(*   t = "num"     the number n                                            *)
(*   t = "str"     the string s (a sequence of characters)                 *)
(*   t = "arr"     a one-element array holding the string s                *)

Absent == [t |-> "absent", n |-> 0, s |-> <<>>]

Null == [t |-> "null", n |-> 0, s |-> <<>>]

Num(k) == [t |-> "num", n |-> k, s |-> <<>>]

Str(cs) == [t |-> "str", n |-> 0, s |-> cs]

Arr(cs) == [t |-> "arr", n |-> 0, s |-> cs]

\* JavaScript truthiness, as used by the `!payload.x` tests.
Truthy(x) ==
    CASE x.t = "absent" -> FALSE
      [] x.t = "null" -> FALSE
      [] x.t = "num" -> x.n # 0
      [] x.t = "str" -> x.s # <<>>
      [] OTHER -> TRUE

Digits == <<"0", "1", "2", "3", "4", "5", "6", "7", "8", "9">>

\* Number.prototype.toString for the one-digit numbers of the model.
NumToString(k) == <<Digits[k + 1]>>

\* ToString as Array.prototype.join applies it to an element:
\* undefined and null give "", a one-element array gives its element.
JoinToString(x) ==
    CASE x.t = "absent" -> <<>>
      [] x.t = "null" -> <<>>
      [] x.t = "num" -> NumToString(x.n)
      [] OTHER -> x.s

RECURSIVE JoinPipe(_)
JoinPipe(parts) ==
    IF parts = <<>> THEN <<>>
    ELSE IF Len(parts) = 1 THEN JoinToString(parts[1])
    ELSE JoinToString(parts[1]) \o <<"|">> \o JoinPipe(Tail(parts))

----------------------------------------------------------------------------
(* Hex encoding (CryptoJS.enc.Hex) *)

HexDigits == <<"0", "1", "2", "3", "4", "5", "6", "7",
               "8", "9", "a", "b", "c", "d", "e", "f">>

UpperHex == <<"0", "1", "2", "3", "4", "5", "6", "7",
              "8", "9", "A", "B", "C", "D", "E", "F">>

\* WordArray.toString(): two lowercase hex digits per byte.
HexStringify(bytes) ==
    Flatten([i \in 1..Len(bytes) |->
        <<HexDigits[(bytes[i] \div 16) + 1], HexDigits[(bytes[i] % 16) + 1]>>])

HexChars == {HexDigits[k] : k \in 1..16} \cup {UpperHex[k] : k \in 1..16}

HexTable ==
    [c \in HexChars |-> (CHOOSE k \in 1..16 : HexDigits[k] = c \/ UpperHex[k] = c) - 1]

\* Value of one hex digit (either case), -1 for any other character.
HexVal(c) == IF c \in HexChars THEN HexTable[c] ELSE -1

\* parseInt(two characters, 16): NaN (used as 0) when the first character is
\* no hex digit, the first digit alone when the second is none.
ParseInt16(c1, c2) ==
    IF HexVal(c1) < 0 THEN 0
    ELSE IF HexVal(c2) < 0 THEN HexVal(c1)
    ELSE 16 * HexVal(c1) + HexVal(c2)

\* Hex.parse of a string of even length: one byte per two characters.
HexParse(cs) ==
    [i \in 1..(Len(cs) \div 2) |-> ParseInt16(cs[2 * i - 1], cs[2 * i])]

\* WordArray.random(n): n bytes chosen by the seed.
RandomBytes(n, seed) == [i \in 1..n |-> (seed * 37 + i * 11) % 256]

----------------------------------------------------------------------------
(* UTF-8 (CryptoJS.enc.Utf8) over the characters of the model *)

PlainChars == {"a", "e_acute"}

Utf8OfChar(c) == IF c = "a" THEN <<97>> ELSE <<195, 169>>

Utf8Parse(text) == Flatten([i \in 1..Len(text) |-> Utf8OfChar(text[i])])

\* Utf8.stringify: [ok, text]; ok = FALSE is "Malformed UTF-8 data".
RECURSIVE Utf8Stringify(_)
Utf8Stringify(bytes) ==
    IF bytes = <<>> THEN [ok |-> TRUE, text |-> <<>>]
    ELSE IF Head(bytes) = 97
    THEN LET r == Utf8Stringify(Tail(bytes))
         IN  [ok |-> r.ok, text |-> <<"a">> \o r.text]
    ELSE IF Head(bytes) = 195 /\ Len(bytes) >= 2 /\ bytes[2] = 169
    THEN LET r == Utf8Stringify(Tail(Tail(bytes)))
         IN  [ok |-> r.ok, text |-> <<"e_acute">> \o r.text]
    ELSE [ok |-> FALSE, text |-> <<>>]

----------------------------------------------------------------------------
(* Key derivation *)

PassSet == {<<"k">>, <<"j">>}

\* CryptoJS.PBKDF2(passphrase, salt, {keySize: 16 words, SHA256, 100000}):
\* sixteen words, each a term of the passphrase, the salt and its index
\* (the pair of passphrase and salt is kept as its printed term).
PBKDF2(passphrase, salt) ==
    LET h == ToString(<<passphrase, salt>>)
    IN  [w \in 1..DERIVED_WORDS |-> <<h, w>>]

deriveKeys(passphrase, salt) ==
    LET derived == PBKDF2(passphrase, salt)
    IN  [encKey |-> SubSeq(derived, 1, ENC_KEY_WORDS),
         macKey |-> SubSeq(derived, ENC_KEY_WORDS + 1, DERIVED_WORDS)]

\* CryptoJS.HmacSHA256(data, key).toString(): the printed term.
HmacSHA256(data, key) == <<ToString(<<key, data>>)>>

\* Faulty variant: the ciphertext is left out of the authenticated string.
calculateMAC_OmitCt(payloadParts, macKey) ==
    HmacSHA256(JoinPipe(SubSeq(payloadParts, 1, Len(payloadParts) - 1)), macKey)

calculateMAC(payloadParts, macKey) ==
    HmacSHA256(JoinPipe(payloadParts), macKey)

----------------------------------------------------------------------------
(* Block ciphers in CBC mode with PKCS#7 padding (ALGO_MAP) *)

AES == <<"A", "E", "S">>

DES == <<"D", "E", "S">>

TripleDES == <<"T", "r", "i", "p", "l", "e", "D", "E", "S">>

CryptoAlgo == {AES, DES, TripleDES}

\* Block size in bytes: 16 for AES, 8 for DES and TripleDES.
BlockBytes(alg) == IF alg = AES THEN 16 ELSE 8

\* Key words the cipher reads: all 8 (AES-256), the first 2 (DES), the first 6
\* (TripleDES).
CipherKey(key, alg) ==
    IF alg = AES THEN key
    ELSE IF alg = DES THEN SubSeq(key, 1, Min(2, Len(key)))
    ELSE SubSeq(key, 1, Min(6, Len(key)))

\* The chaining value CBC starts from: the first block of the IV, missing
\* bytes read as 0.
CipherIv(iv, alg) ==
    [i \in 1..BlockBytes(alg) |-> IF i <= Len(iv) THEN iv[i] ELSE 0]

Pkcs7Pad(bytes, bs) ==
    LET n == bs - (Len(bytes) % bs)
    IN  bytes \o [i \in 1..n |-> n]

\* Pkcs7.unpad: drop as many bytes as the last byte says.
Pkcs7Unpad(bytes) ==
    IF bytes = <<>> THEN <<>>
    ELSE SubSeq(bytes, 1, Len(bytes) - Last(bytes))

SplitBlocks(bytes, bs) ==
    [i \in 1..(Len(bytes) \div bs) |-> SubSeq(bytes, (i - 1) * bs + 1, i * bs)]

\* A cipher block is the tuple <<alg, key, iv, pt>>.
Block(alg, key, iv, pt) == <<alg, key, iv, pt>>

BlockAlg(b) == b[1]

BlockKey(b) == b[2]

BlockIv(b) == b[3]

BlockPt(b) == b[4]

NoBlock == Block(<<>>, <<>>, <<>>, <<>>)

\* cipher.encrypt(text, key, {iv, CBC, Pkcs7}).ciphertext: block i is a term of
\* the algorithm, the key, the IV and the plaintext blocks 1..i.
CbcEncrypt(text, key, iv, alg) ==
    LET blocks == SplitBlocks(Pkcs7Pad(Utf8Parse(text), BlockBytes(alg)), BlockBytes(alg))
    IN  [i \in 1..Len(blocks) |->
            Block(alg, CipherKey(key, alg), CipherIv(iv, alg), SubSeq(blocks, 1, i))]

\* Whether block i of ct decrypts to the plaintext block it was made from:
\* same algorithm and key, and the block before it (the IV for the first) is
\* the one it was chained to.
BlockOpens(ct, i, key, iv, alg) ==
    /\ ct[i] # NoBlock
    /\ BlockAlg(ct[i]) = alg
    /\ BlockKey(ct[i]) = CipherKey(key, alg)
    /\ Len(BlockPt(ct[i])) = i
    /\ IF i = 1 THEN BlockIv(ct[i]) = CipherIv(iv, alg)
       ELSE ct[i - 1] = Block(BlockAlg(ct[i]), BlockKey(ct[i]), BlockIv(ct[i]),
                              SubSeq(BlockPt(ct[i]), 1, i - 1))

\* cipher.decrypt before unpadding: [ok, bytes]; ok = FALSE stands for the
\* pseudo-random bytes any other input decrypts to.
CbcDecrypt(ct, key, iv, alg) ==
    IF ct # <<>> /\ \A i \in 1..Len(ct) : BlockOpens(ct, i, key, iv, alg)
    THEN [ok |-> TRUE, bytes |-> Flatten([i \in 1..Len(ct) |-> Last(BlockPt(ct[i]))])]
    ELSE [ok |-> FALSE, bytes |-> <<>>]

\* Characters of a ciphertext string: part j of the Base64 text of one cipher
\* block (each block is written as B64Parts characters), or a literal
\* character.
B64Char(b, j) == <<"", b, j>>

LitChar(c) == <<c, NoBlock, 0>>

\* WordArray.toString(CryptoJS.enc.Base64)
Base64Stringify(ct) ==
    Flatten([i \in 1..Len(ct) |-> [j \in 1..B64Parts |-> B64Char(ct[i], j)]])

\* CryptoJS.enc.Base64.parse: never throws.  A group of characters gives back
\* a block when it is the whole text of that block, in order; any other
\* group gives bytes no key opens.
Base64Parse(cs) ==
    [i \in 1..(Len(cs) \div B64Parts) |->
        LET b == cs[(i - 1) * B64Parts + 1][2]
        IN  IF \A j \in 1..B64Parts : cs[(i - 1) * B64Parts + j] = B64Char(b, j)
            THEN b ELSE NoBlock]

\* What decrypting unauthenticated or wrongly keyed bytes can give after
\* unpadding and UTF-8 decoding.
GarbageOutcomes == {"malformed", "empty", "text"}

GarbageText == <<"a", "a", "a">>

----------------------------------------------------------------------------
(* The envelope and its JSON text *)

EmptyPayload ==
    [v |-> Absent, a |-> Absent, s |-> Absent, iv |-> Absent, ct |-> Absent, mac |-> Absent]

\* JSON.stringify of a flat payload object.
JSONStringify(payload) == [json |-> "object", val |-> payload]

\* Texts that are not an object: unparseable text, and the text "null".
GarbageJSON == [json |-> "garbage", val |-> EmptyPayload]

NullJSON == [json |-> "null", val |-> EmptyPayload]

\* JSON.parse: throws (ok = FALSE) on unparseable text.
JSONParse(text) ==
    [ok |-> text.json # "garbage", isNull |-> text.json = "null", val |-> text.val]

----------------------------------------------------------------------------
(* Outcomes of a call *)

Idle == [kind |-> "idle", code |-> "", message |-> "", text |-> <<>>]

Returned(text) == [kind |-> "ok", code |-> "", message |-> "", text |-> text]

\* new CryptoError(code): message defaults to the code.
CryptoError(code) == [kind |-> "CryptoError", code |-> code, message |-> code, text |-> <<>>]

\* cipher.decrypt ran on bytes whose plaintext the model does not determine.
Undetermined == [kind |-> "undetermined", code |-> "", message |-> "", text |-> <<>>]

\* A native exception that leaves the function as it is.
NativeError(name) == [kind |-> "native", code |-> name, message |-> "", text |-> <<>>]

INVALID_PAYLOAD == "INVALID_PAYLOAD"

UNSUPPORTED_VERSION == "UNSUPPORTED_VERSION"

INTEGRITY_FAILED == "INTEGRITY_FAILED"

DECRYPTION_FAILED == "DECRYPTION_FAILED"

MALFORMED_INPUT == "MALFORMED_INPUT"

CryptoErrorCode ==
    {INVALID_PAYLOAD, UNSUPPORTED_VERSION, INTEGRITY_FAILED, DECRYPTION_FAILED, MALFORMED_INPUT}

----------------------------------------------------------------------------
(* encryptText *)

BuildPayload(algo, salt, iv, ciphertextBase64, mac) ==
    [v |-> Num(VERSION), a |-> Str(algo), s |-> Str(HexStringify(salt)),
     iv |-> Str(HexStringify(iv)), ct |-> Str(ciphertextBase64), mac |-> Str(mac)]

encryptText(text, passphrase, algo, saltSeed, ivSeed) ==
    LET salt == RandomBytes(SALT_SIZE_BYTES, saltSeed)
        iv == RandomBytes(IV_SIZE_BYTES, ivSeed)
        keys == deriveKeys(passphrase, salt)
        ciphertextBase64 == Base64Stringify(CbcEncrypt(text, keys.encKey, iv, algo))
        mac == calculateMAC(
                 <<Str(NumToString(VERSION)), Str(algo), Str(HexStringify(salt)),
                   Str(HexStringify(iv)), Str(ciphertextBase64)>>,
                 keys.macKey)
    IN  JSONStringify(BuildPayload(algo, salt, iv, ciphertextBase64, mac))

----------------------------------------------------------------------------
(* decryptText *)

\* The presence test of the try block: !v || !ct || !s || !iv || !mac.
FieldsMissing(payload) ==
    \/ ~Truthy(payload.v)
    \/ ~Truthy(payload.ct)
    \/ ~Truthy(payload.s)
    \/ ~Truthy(payload.iv)
    \/ ~Truthy(payload.mac)

\* Hex.parse calls hexStr.substr: a TypeError on an array.
HexParseThrows(x) == x.t = "arr"

\* ALGO_MAP[payload.a] || ALGO_MAP.AES
CipherOf(a) ==
    IF a.t \in {"str", "arr"} /\ a.s \in CryptoAlgo THEN a.s ELSE AES

ExpectedMac(payload, macKey) ==
    calculateMAC(
      <<Str(NumToString(payload.v.n)), payload.a, payload.s, payload.iv, payload.ct>>,
      macKey)

\* Step 3 of decryptText: the try block around cipher.decrypt.  Bytes that no
\* encryption of the model produced decrypt to pseudo-random bytes: the
\* outcome is Undetermined until Settle picks what unpadding and decoding
\* them gives.
Decryption(payload, encKey, iv) ==
    LET decrypted == CbcDecrypt(Base64Parse(payload.ct.s), encKey, iv, CipherOf(payload.a))
        plainText == Utf8Stringify(Pkcs7Unpad(decrypted.bytes))
    IN  IF decrypted.ok
        THEN IF ~plainText.ok \/ plainText.text = <<>>
             THEN CryptoError(DECRYPTION_FAILED)
             ELSE Returned(plainText.text)
        ELSE Undetermined

\* The outcome of the try block once pseudo-random bytes are unpadded and
\* decoded: malformed UTF-8 or an empty string (both DECRYPTION_FAILED), or
\* some text, which is returned.
Settle(r, g) ==
    IF r.kind # "undetermined" THEN r
    ELSE IF g = "text" THEN Returned(GarbageText)
    ELSE CryptoError(DECRYPTION_FAILED)

\* Faulty variant: the MAC comparison is missing.
decryptText_SkipIntegrity(text, passphrase) ==
    LET parsed == JSONParse(text)
        payload == parsed.val
    IN  IF ~parsed.ok \/ parsed.isNull \/ FieldsMissing(payload)
        THEN [result |-> CryptoError(INVALID_PAYLOAD), calls |-> <<"JSON.parse">>]
        ELSE IF payload.v # Num(VERSION)
        THEN [result |-> CryptoError(UNSUPPORTED_VERSION), calls |-> <<"JSON.parse">>]
        ELSE IF HexParseThrows(payload.s) \/ HexParseThrows(payload.iv)
        THEN [result |-> NativeError("TypeError"), calls |-> <<"JSON.parse", "Hex.parse">>]
        ELSE LET salt == HexParse(payload.s.s)
                 iv == HexParse(payload.iv.s)
                 keys == deriveKeys(passphrase, salt)
             IN  [result |-> Decryption(payload, keys.encKey, iv),
                  calls |-> <<"JSON.parse", "Hex.parse", "PBKDF2", "cipher.decrypt">>]

\* Faulty variant: the ciphertext is decrypted first and the MAC compared
\* afterwards.
decryptText_DecryptFirst(text, passphrase) ==
    LET parsed == JSONParse(text)
        payload == parsed.val
    IN  IF ~parsed.ok \/ parsed.isNull \/ FieldsMissing(payload)
        THEN [result |-> CryptoError(INVALID_PAYLOAD), calls |-> <<"JSON.parse">>]
        ELSE IF payload.v # Num(VERSION)
        THEN [result |-> CryptoError(UNSUPPORTED_VERSION), calls |-> <<"JSON.parse">>]
        ELSE IF HexParseThrows(payload.s) \/ HexParseThrows(payload.iv)
        THEN [result |-> NativeError("TypeError"), calls |-> <<"JSON.parse", "Hex.parse">>]
        ELSE LET salt == HexParse(payload.s.s)
                 iv == HexParse(payload.iv.s)
                 keys == deriveKeys(passphrase, salt)
             IN  [result |-> IF Str(ExpectedMac(payload, keys.macKey)) # payload.mac
                             THEN CryptoError(INTEGRITY_FAILED)
                             ELSE Decryption(payload, keys.encKey, iv),
                  calls |-> <<"JSON.parse", "Hex.parse", "PBKDF2", "cipher.decrypt",
                              "HmacSHA256">>]

\* [result, calls]: the outcome and the library calls made, in order.
decryptText(text, passphrase) ==
    LET parsed == JSONParse(text)
        payload == parsed.val
    IN  IF ~parsed.ok \/ parsed.isNull \/ FieldsMissing(payload)
        THEN [result |-> CryptoError(INVALID_PAYLOAD), calls |-> <<"JSON.parse">>]
        ELSE IF payload.v # Num(VERSION)
        THEN [result |-> CryptoError(UNSUPPORTED_VERSION), calls |-> <<"JSON.parse">>]
        ELSE IF HexParseThrows(payload.s) \/ HexParseThrows(payload.iv)
        THEN [result |-> NativeError("TypeError"), calls |-> <<"JSON.parse", "Hex.parse">>]
        ELSE LET salt == HexParse(payload.s.s)
                 iv == HexParse(payload.iv.s)
                 keys == deriveKeys(passphrase, salt)
             IN  IF Str(ExpectedMac(payload, keys.macKey)) # payload.mac
                 THEN [result |-> CryptoError(INTEGRITY_FAILED),
                       calls |-> <<"JSON.parse", "Hex.parse", "PBKDF2", "HmacSHA256">>]
                 ELSE [result |-> Decryption(payload, keys.encKey, iv),
                       calls |-> <<"JSON.parse", "Hex.parse", "PBKDF2", "HmacSHA256",
                                   "cipher.decrypt">>]

----------------------------------------------------------------------------
(* The codec's state machine: an envelope is produced by encryptText, may be *)
(* modified once on its way (by a holder of a passphrase, who can recompute *)
(* the MAC, or by anyone else), and is handed to decryptText.               *)

\* A text that fills one DES block, so that its ciphertext has two blocks.
LongText == [i \in 1..BlockBytes(DES) |-> "a"]

Texts == SeqsUpTo(PlainChars, MaxTextLen) \cup {LongText}

Seeds == 1..NumSeeds

NoEnc == [valid |-> FALSE, text |-> <<>>, pass |-> <<>>, algo |-> <<>>]

NoDec == [pass |-> <<>>]

NoTamper == [what |-> "none", remac |-> FALSE]

\* No passphrase: the modified envelope keeps its MAC.
KeepMac == <<>>

UpperCase(cs) ==
    [i \in 1..Len(cs) |-> IF HexVal(cs[i]) >= 0 THEN UpperHex[HexVal(cs[i]) + 1] ELSE cs[i]]

\* The string with its first two characters replaced by a non-hex character.
NonHexHead(cs) == [i \in 1..Len(cs) |-> IF i <= 2 THEN "z" ELSE cs[i]]

\* The values a field of the envelope may be replaced by.
FieldValues(f, payload) ==
    CASE f = "v" -> {Absent, Num(0), Num(2), Str(<<"1">>)}
      [] f = "a" -> {Absent, Null, Str(<<>>), Str(AES), Str(DES), Str(TripleDES),
                     Str(<<"R", "C", "4">>), Arr(payload.a.s)}
      [] f = "ct" -> {Absent, Str(<<>>)}
      [] f = "mac" -> {Absent, Str(<<>>), Str(<<"0">>)}
      [] OTHER -> {Absent, Str(<<>>), Str(UpperCase(payload[f].s)),
                   Str(NonHexHead(payload[f].s)), Arr(payload[f].s)}
                  \cup {Str(HexStringify(RandomBytes(SALT_SIZE_BYTES, seed))) : seed \in 1..(2 * NumSeeds)}

FieldNames == {"v", "a", "s", "iv", "ct", "mac"}

\* The MAC a holder of passphrase K computes for the payload as it stands.
Remac(payload, K) ==
    IF K = KeepMac \/ payload.v.t # "num" \/ payload.s.t # "str" \/ payload.iv.t # "str"
    THEN payload
    ELSE [payload EXCEPT
            !.mac = Str(ExpectedMac(payload, deriveKeys(K, HexParse(payload.s.s)).macKey))]

Init ==
    /\ packed = GarbageJSON
    /\ enc = NoEnc
    /\ tamper = NoTamper
    /\ dec = NoDec
    /\ result = Idle
    /\ calls = <<>>
    /\ oldItems = <<>>
    /\ newItems = <<>>
    /\ script = <<>>
    /\ aligned = FALSE
    /\ TextIdle
    /\ PwIdle
    /\ HooksIdle

\* One call of encryptText; the random source gives the salt, then the IV.
Encrypt(text, K, algo, seed) ==
    /\ ~enc.valid
    /\ packed' = encryptText(text, K, algo, 2 * seed - 1, 2 * seed)
    /\ enc' = [valid |-> TRUE, text |-> text, pass |-> K, algo |-> algo]
    /\ tamper' = NoTamper
    /\ dec' = NoDec
    /\ result' = Idle
    /\ calls' = <<>>
    /\ UNCHANGED <<diffVars, textVars, pwVars, hookVars>>

Modify(payload, what, K) ==
    /\ packed' = JSONStringify(Remac(payload, K))
    /\ tamper' = [what |-> what, remac |-> Remac(payload, K) # payload]
    /\ dec' = NoDec
    /\ result' = Idle
    /\ calls' = <<>>
    /\ UNCHANGED enc
    /\ UNCHANGED <<diffVars, textVars, pwVars, hookVars>>

\* Replace character i of the ct field by a different character.
FlipCt(i, c, K) ==
    /\ enc.valid /\ tamper = NoTamper
    /\ i \in 1..Len(packed.val.ct.s)
    /\ c # packed.val.ct.s[i]
    /\ Modify([packed.val EXCEPT !.ct.s[i] = c], "ct_flip", K)

\* Replace (or remove) one field of the envelope.
SetField(f, x, K) ==
    /\ enc.valid /\ tamper = NoTamper
    /\ x # packed.val[f]
    /\ Modify([packed.val EXCEPT ![f] = x], f, K)

\* Replace the whole text by something that is no JSON object.
Garble(text) ==
    /\ enc.valid /\ tamper = NoTamper
    /\ packed' = text
    /\ tamper' = [what |-> "text", remac |-> FALSE]
    /\ dec' = NoDec
    /\ result' = Idle
    /\ calls' = <<>>
    /\ UNCHANGED enc
    /\ UNCHANGED <<diffVars, textVars, pwVars, hookVars>>

Decrypt(K) ==
    /\ result = Idle
    /\ LET r == decryptText(packed, K)
       IN  /\ \E g \in GarbageOutcomes : result' = Settle(r.result, g)
           /\ calls' = r.calls
    /\ dec' = [pass |-> K]
    /\ UNCHANGED <<packed, enc, tamper>>
    /\ UNCHANGED <<diffVars, textVars, pwVars, hookVars>>

\* Longest ct of the model: the blocks of the longest text under the
\* smallest block size, B64Parts characters each.
MaxCtLen == ((Max(2 * MaxTextLen, Len(LongText)) \div BlockBytes(DES)) + 1) * B64Parts

CtChars(payload) ==
    {LitChar("A"), LitChar("=")} \cup {payload.ct.s[i] : i \in 1..Len(payload.ct.s)}

Next ==
    \/ \E text \in Texts, K \in PassSet, algo \in CryptoAlgo, seed \in Seeds :
          Encrypt(text, K, algo, seed)
    \/ \E i \in 1..MaxCtLen, c \in CtChars(packed.val), K \in {enc.pass, KeepMac} :
          FlipCt(i, c, K)
    \/ \E f \in FieldNames, K \in {enc.pass, KeepMac} :
          \E x \in FieldValues(f, packed.val) : SetField(f, x, K)
    \/ \E text \in {GarbageJSON, NullJSON} : Garble(text)
    \/ \E K \in PassSet : Decrypt(K)

Spec == Init /\ [][Next]_vars

----------------------------------------------------------------------------
(* The LCS aligner: computeDiff of TextDiff.tsx *)

\* An item with a render string and a comparison key (Token).
Keyed(r, k) == [render |-> r, diff |-> k]

\* Items the aligner is run on: "a" and "A" share the key "a".
ItemSet == {Keyed("a", "a"), Keyed("A", "a"), Keyed("b", "b"), Keyed("c", "c")}

ItemSeqs == SeqsUpTo(ItemSet, MaxItems)

\* Faulty variant: the cell above is forgotten.
DpCell_LeftOnly(eq, diag, up, left) == IF eq THEN diag + 1 ELSE left

\* One cell of the DP table from its three neighbours.
DpCell(eq, diag, up, left) == IF eq THEN diag + 1 ELSE Max(up, left)

\* The table dp[0..n][0..m] filled by the two nested loops.
LcsTable(old, new) ==
    LET dp[i \in 0..Len(old), j \in 0..Len(new)] ==
            IF i = 0 \/ j = 0 THEN 0
            ELSE DpCell(old[i].diff = new[j].diff, dp[i - 1, j - 1], dp[i - 1, j], dp[i, j - 1])
    IN  dp

\* An edit-script entry; an item the code leaves undefined is the empty
\* sequence, a defined one a one-element sequence.
\* Faulty variant: the old item is recorded on both sides.
UnchangedOp_OldOnBothSides(o, n) ==
    [type |-> "unchanged", oldItem |-> <<o>>, newItem |-> <<o>>]

UnchangedOp(o, n) == [type |-> "unchanged", oldItem |-> <<o>>, newItem |-> <<n>>]

AddedOp(n) == [type |-> "added", oldItem |-> <<>>, newItem |-> <<n>>]

RemovedOp(o) == [type |-> "removed", oldItem |-> <<o>>, newItem |-> <<>>]

\* Faulty variant: on a tie the old item is consumed.
RECURSIVE Backtrack_PreferRemoved(_, _, _, _, _)
Backtrack_PreferRemoved(old, new, dp, i, j) ==
    IF ~(i > 0 \/ j > 0) THEN <<>>
    ELSE IF i > 0 /\ j > 0 /\ old[i].diff = new[j].diff
    THEN Append(Backtrack_PreferRemoved(old, new, dp, i - 1, j - 1), UnchangedOp(old[i], new[j]))
    ELSE IF j > 0 /\ (i = 0 \/ dp[i, j - 1] > dp[i - 1, j])
    THEN Append(Backtrack_PreferRemoved(old, new, dp, i, j - 1), AddedOp(new[j]))
    ELSE Append(Backtrack_PreferRemoved(old, new, dp, i - 1, j), RemovedOp(old[i]))

\* The backtracking loop from (i, j): each entry is put in front of the ones
\* found before it, so the entries found from (i', j') closer to the origin
\* come first.
RECURSIVE Backtrack(_, _, _, _, _)
Backtrack(old, new, dp, i, j) ==
    IF ~(i > 0 \/ j > 0) THEN <<>>
    ELSE IF i > 0 /\ j > 0 /\ old[i].diff = new[j].diff
    THEN Append(Backtrack(old, new, dp, i - 1, j - 1), UnchangedOp(old[i], new[j]))
    ELSE IF j > 0 /\ (i = 0 \/ dp[i, j - 1] >= dp[i - 1, j])
    THEN Append(Backtrack(old, new, dp, i, j - 1), AddedOp(new[j]))
    ELSE Append(Backtrack(old, new, dp, i - 1, j), RemovedOp(old[i]))

computeDiff(old, new) ==
    Backtrack(old, new, LcsTable(old, new), Len(old), Len(new))

InitAlign ==
    /\ packed = GarbageJSON
    /\ enc = NoEnc
    /\ tamper = NoTamper
    /\ dec = NoDec
    /\ result = Idle
    /\ calls = <<>>
    /\ oldItems \in ItemSeqs
    /\ newItems \in ItemSeqs
    /\ script = <<>>
    /\ aligned = FALSE
    /\ TextIdle
    /\ PwIdle
    /\ HooksIdle

Align ==
    /\ ~aligned
    /\ script' = computeDiff(oldItems, newItems)
    /\ aligned' = TRUE
    /\ UNCHANGED <<oldItems, newItems>>
    /\ UNCHANGED <<cryptoVars, textVars, pwVars, hookVars>>

NextAlign == Align

SpecAlign == InitAlign /\ [][NextAlign]_vars

\* The codec and the aligner before they are used.
CryptoIdle ==
    /\ packed = GarbageJSON
    /\ enc = NoEnc
    /\ tamper = NoTamper
    /\ dec = NoDec
    /\ result = Idle
    /\ calls = <<>>

AlignIdle ==
    /\ oldItems = <<>>
    /\ newItems = <<>>
    /\ script = <<>>
    /\ aligned = FALSE

----------------------------------------------------------------------------
(* Characters of the text tools.  A character is a one-element name; the   *)
(* names below stand for the code points given.                            *)
(*   "LF" U+000A  "CR" U+000D  "TAB" U+0009  "ideo_space" U+3000           *)
(*   "fw_excl" U+FF01  "fw_A" U+FF21  "cjk_zhong" U+4E2D  "cjk_wen" U+6587 *)
(*   "e_acute" U+00E9                                                      *)

UpperLetters == {"A", "B", "E", "H", "L", "O", "T"}

LowerLetters == {"a", "b", "c", "e", "f", "h", "i", "k", "l", "n", "o", "q", "r", "t",
                 "u", "w", "x"}

\* \w without the u/i flags: ASCII letters, digits and the underscore.
WordChars == UpperLetters \cup LowerLetters \cup {"1", "_"}

\* \s
SpaceChars == {" ", "TAB", "LF", "CR", "ideo_space"}

\* [一-龥]
CjkChars == {"cjk_zhong", "cjk_wen"}

\* [\p{P}\p{S}] among the characters of the model; the underscore and the
\* apostrophe are punctuation (Pc, Po).
PunctChars == {"!", ".", "'", "_", "+", "fw_excl"}

IsWordOrApostrophe(c) == c \in WordChars \/ c = "'"

\* toLowerCase on one character.
LowerOf(c) ==
    CASE c = "A" -> "a" [] c = "B" -> "b" [] c = "E" -> "e" [] c = "H" -> "h"
      [] c = "L" -> "l" [] c = "O" -> "o" [] c = "T" -> "t" [] c = "fw_A" -> "fw_a"
      [] OTHER -> c

\* Step 1 of getDiffKey: U+FF01..U+FF5E minus 0xFEE0, U+3000 to a space.
HalfWidthOf(c) ==
    CASE c = "fw_excl" -> "!" [] c = "fw_A" -> "A" [] c = "ideo_space" -> " "
      [] OTHER -> c

\* Steps 1 and 2 of getDiffKey on a whole string.
HalfWidthAll(cs) == [i \in 1..Len(cs) |-> HalfWidthOf(cs[i])]

LowerAll(cs) == [i \in 1..Len(cs) |-> LowerOf(cs[i])]

NotPunct(c) == c \notin PunctChars

NotSpace(c) == c \notin SpaceChars

\* String.prototype.trim
RECURSIVE TrimStart(_)
TrimStart(cs) ==
    IF cs # <<>> /\ Head(cs) \in SpaceChars THEN TrimStart(Tail(cs)) ELSE cs

RECURSIVE TrimEnd(_)
TrimEnd(cs) ==
    IF cs # <<>> /\ Last(cs) \in SpaceChars THEN TrimEnd(SubSeq(cs, 1, Len(cs) - 1)) ELSE cs

Trim(cs) == TrimEnd(TrimStart(cs))

AllSettings ==
    [ignoreCase : BOOLEAN, ignorePunctuation : BOOLEAN, ignoreWhitespace : BOOLEAN]

\* Faulty variant: ignoreCase is not honoured.
getDiffKey_CaseSensitive(str, s) ==
    LET k1 == HalfWidthAll(str)
        k3 == IF s.ignorePunctuation THEN SelectSeq(k1, NotPunct) ELSE k1
        k4 == IF s.ignoreWhitespace THEN SelectSeq(k3, NotSpace) ELSE k3
    IN  IF s.ignoreWhitespace THEN k4 ELSE Trim(k4)

getDiffKey(str, s) ==
    LET k1 == HalfWidthAll(str)
        k2 == IF s.ignoreCase THEN LowerAll(k1) ELSE k1
        k3 == IF s.ignorePunctuation THEN SelectSeq(k2, NotPunct) ELSE k2
        k4 == IF s.ignoreWhitespace THEN SelectSeq(k3, NotSpace) ELSE k3
    IN  IF s.ignoreWhitespace THEN k4 ELSE Trim(k4)

IsSpace(c) == c \in SpaceChars

\* Length of the longest prefix of cs made of word characters and
\* apostrophes ([\w']+).
RECURSIVE WordRun(_)
WordRun(cs) ==
    IF cs # <<>> /\ IsWordOrApostrophe(Head(cs)) THEN 1 + WordRun(Tail(cs)) ELSE 0

\* Length of the longest prefix of cs made of whitespace (\s+).
RECURSIVE SpaceRun(_)
SpaceRun(cs) ==
    IF cs # <<>> /\ IsSpace(Head(cs)) THEN 1 + SpaceRun(Tail(cs)) ELSE 0

IsOther(c) == ~IsWordOrApostrophe(c) /\ ~IsSpace(c) /\ c \notin CjkChars

RECURSIVE OtherRun(_)
OtherRun(cs) ==
    IF cs # <<>> /\ IsOther(Head(cs)) THEN 1 + OtherRun(Tail(cs)) ELSE 0

\* Faulty variant: a run of other characters is matched as a whole.
MatchLength_OtherRun(cs) ==
    IF Head(cs) \in CjkChars THEN 1
    ELSE IF IsWordOrApostrophe(Head(cs)) THEN WordRun(cs)
    ELSE IF ~IsSpace(Head(cs)) THEN OtherRun(cs)
    ELSE SpaceRun(cs)

\* Length of the match of the tokenizer's regular expression at the head of
\* a non-empty cs: the first alternative that matches, in the order written.
MatchLength(cs) ==
    IF Head(cs) \in CjkChars THEN 1
    ELSE IF IsWordOrApostrophe(Head(cs)) THEN WordRun(cs)
    ELSE IF ~IsSpace(Head(cs)) THEN 1
    ELSE SpaceRun(cs)

\* text.match(/.../gu) || []
RECURSIVE rawTokens(_)
rawTokens(text) ==
    IF text = <<>> THEN <<>>
    ELSE LET n == MatchLength(text)
         IN  <<SubSeq(text, 1, n)>> \o rawTokens(SubSeq(text, n + 1, Len(text)))

AllPunct(cs) == cs # <<>> /\ \A i \in 1..Len(cs) : cs[i] \in PunctChars

AllSpace(cs) == cs # <<>> /\ \A i \in 1..Len(cs) : cs[i] \in SpaceChars

\* Faulty variant: whitespace tokens are dropped whatever the settings.
tokenize_DropsSpace(text, s) ==
    LET raw == rawTokens(text)
        mapped == [i \in 1..Len(raw) |-> Keyed(raw[i], getDiffKey(raw[i], s))]
        Kept(t) == /\ ~(s.ignorePunctuation /\ AllPunct(t.render))
                   /\ ~AllSpace(t.render)
    IN  SelectSeq(mapped, Kept)

tokenize(text, s) ==
    LET raw == rawTokens(text)
        mapped == [i \in 1..Len(raw) |-> Keyed(raw[i], getDiffKey(raw[i], s))]
        Kept(t) == /\ ~(s.ignorePunctuation /\ AllPunct(t.render))
                   /\ ~(s.ignoreWhitespace /\ AllSpace(t.render))
    IN  SelectSeq(mapped, Kept)

\* Texts the tokenizer is run on.
TokAlphabet == {"a", "A", "1", "_", "'", "!", "+", " ", "LF", "cjk_zhong", "fw_excl", "e_acute"}

TokTexts == SeqsUpTo(TokAlphabet, MaxTokChars)

InitTokenize ==
    /\ CryptoIdle /\ AlignIdle /\ PwIdle /\ HooksIdle
    /\ settings \in AllSettings
    /\ tokText \in TokTexts
    /\ tokens = <<>>
    /\ tokenized = FALSE
    /\ oldText = <<>>
    /\ newText = <<>>
    /\ processed = <<>>
    /\ compared = FALSE

Tokenize ==
    /\ ~tokenized
    /\ tokens' = tokenize(tokText, settings)
    /\ tokenized' = TRUE
    /\ UNCHANGED <<settings, tokText, oldText, newText, processed, compared>>
    /\ UNCHANGED <<cryptoVars, diffVars, pwVars, hookVars>>

NextTokenize == Tokenize

SpecTokenize == InitTokenize /\ [][NextTokenize]_vars

----------------------------------------------------------------------------
(* TextDiff: diffResult *)

\* Index of the first "LF" of cs, 0 when there is none.
RECURSIVE FirstLF(_, _)
FirstLF(cs, i) ==
    IF i > Len(cs) THEN 0 ELSE IF cs[i] = "LF" THEN i ELSE FirstLF(cs, i + 1)

\* text.split(/\r?\n/): the empty text gives one empty line.
RECURSIVE SplitLines(_)
SplitLines(text) ==
    LET i == FirstLF(text, 1)
        line == SubSeq(text, 1, i - 1)
    IN  IF i = 0 THEN <<text>>
        ELSE <<IF line # <<>> /\ Last(line) = "CR" THEN SubSeq(line, 1, Len(line) - 1) ELSE line>>
             \o SplitLines(SubSeq(text, i + 1, Len(text)))

\* Faulty variant: an empty text has no line.
KeyedLines_EmptyIsNoLine(text, s) ==
    LET raw == IF text = <<>> THEN <<>> ELSE SplitLines(text)
    IN  [i \in 1..Len(raw) |-> Keyed(raw[i], getDiffKey(raw[i], s))]

\* Lines with their line-level keys.
KeyedLines(text, s) ==
    LET raw == SplitLines(text)
    IN  [i \in 1..Len(raw) |-> Keyed(raw[i], getDiffKey(raw[i], s))]

\* An entry of diffResult; hasWordDiff = FALSE is a missing wordDiff property.
PlainLine(type, value) ==
    [type |-> type, value |-> value, hasWordDiff |-> FALSE, wordDiff |-> <<>>]

SpannedLine(type, value, wordDiff) ==
    [type |-> type, value |-> value, hasWordDiff |-> TRUE, wordDiff |-> wordDiff]

NotAdded(d) == d.type # "added"

NotRemoved(d) == d.type # "removed"

\* wordDiffs.filter(d => d.type !== 'added').map(... d.oldItem.render)
OldSpans(wordDiffs) ==
    LET kept == SelectSeq(wordDiffs, NotAdded)
    IN  [i \in 1..Len(kept) |-> [type |-> kept[i].type, value |-> kept[i].oldItem[1].render]]

\* Faulty variant: every span of the new line is marked added.
NewSpans_AllAdded(wordDiffs) ==
    LET kept == SelectSeq(wordDiffs, NotRemoved)
    IN  [i \in 1..Len(kept) |-> [type |-> "added", value |-> kept[i].newItem[1].render]]

\* wordDiffs.filter(d => d.type !== 'removed').map(... d.newItem.render)
NewSpans(wordDiffs) ==
    LET kept == SelectSeq(wordDiffs, NotRemoved)
    IN  [i \in 1..Len(kept) |-> [type |-> kept[i].type, value |-> kept[i].newItem[1].render]]

\* Faulty variant: a removed line and an added line of the same rank are
\* emitted one after the other without their word-level comparison.
BlockEntries_Unpaired(removals, additions, p, s) ==
    (IF p <= Len(removals) THEN <<PlainLine("removed", removals[p].render)>> ELSE <<>>)
    \o (IF p <= Len(additions) THEN <<PlainLine("added", additions[p].render)>> ELSE <<>>)

\* The body of the for loop over p, for one p (1-based).
BlockEntries(removals, additions, p, s) ==
    IF p <= Len(removals) /\ p <= Len(additions)
    THEN LET wordDiffs == computeDiff(tokenize(removals[p].render, s),
                                      tokenize(additions[p].render, s))
         IN  <<SpannedLine("removed", removals[p].render, OldSpans(wordDiffs)),
               SpannedLine("added", additions[p].render, NewSpans(wordDiffs))>>
    ELSE IF p <= Len(removals) THEN <<PlainLine("removed", removals[p].render)>>
    ELSE <<PlainLine("added", additions[p].render)>>

\* Faulty variant: an unchanged line shows the old line.
UnchangedLine_OldSide(current) == PlainLine("unchanged", current.oldItem[1].render)

\* processed.push({ type: 'unchanged', value: current.newItem!.render })
UnchangedLine(current) == PlainLine("unchanged", current.newItem[1].render)

\* Number of consecutive entries of the given type from position k on.
RECURSIVE RunOfType(_, _, _)
RunOfType(lineDiffs, k, type) ==
    IF k <= Len(lineDiffs) /\ lineDiffs[k].type = type
    THEN 1 + RunOfType(lineDiffs, k + 1, type) ELSE 0

\* The while loop over k, from position k on.
RECURSIVE ProcessFrom(_, _, _)
ProcessFrom(lineDiffs, k, s) ==
    IF k > Len(lineDiffs) THEN <<>>
    ELSE IF lineDiffs[k].type = "unchanged"
    THEN <<UnchangedLine(lineDiffs[k])>> \o ProcessFrom(lineDiffs, k + 1, s)
    ELSE LET nr == RunOfType(lineDiffs, k, "removed")
             na == RunOfType(lineDiffs, k + nr, "added")
             removals == [p \in 1..nr |-> lineDiffs[k + p - 1].oldItem[1]]
             additions == [p \in 1..na |-> lineDiffs[k + nr + p - 1].newItem[1]]
         IN  Flatten([p \in 1..Max(nr, na) |-> BlockEntries(removals, additions, p, s)])
             \o ProcessFrom(lineDiffs, k + nr + na, s)

\* Faulty variant: two empty texts are compared like any others.
diffResult_NoEmptyCheck(old, new, s) ==
    ProcessFrom(computeDiff(KeyedLines(old, s), KeyedLines(new, s)), 1, s)

diffResult(old, new, s) ==
    IF old = <<>> /\ new = <<>> THEN <<>>
    ELSE ProcessFrom(computeDiff(KeyedLines(old, s), KeyedLines(new, s)), 1, s)

\* Texts typed into the two boxes.
DiffAlphabet == {"a", "A", " ", "!", "LF"}

\* Pairs of texts of at most MaxDiffChars characters together.
DiffPairs ==
    UNION {[1..i -> DiffAlphabet] \X SeqsUpTo(DiffAlphabet, MaxDiffChars - i) : i \in 0..MaxDiffChars}

Hello == <<"H", "e", "l", "l", "o">>

HELLO == <<"H", "E", "L", "L", "O">>

TheQuickFox == <<"T", "h", "e", " ", "q", "u", "i", "c", "k", " ", "f", "o", "x">>

TheQuickBrownFox ==
    <<"T", "h", "e", " ", "q", "u", "i", "c", "k", " ", "b", "r", "o", "w", "n", " ",
      "f", "o", "x">>

\* Two lines ended by CR LF.
CrLfText == <<"a", "CR", "LF", "A", "CR", "LF">>

Abc == <<"a", "b", "c">>

ExamplePairs ==
    {<<Hello, HELLO>>, <<TheQuickFox, TheQuickBrownFox>>, <<CrLfText, CrLfText>>,
     <<<<>>, Abc>>}

InitTextDiff ==
    /\ CryptoIdle /\ AlignIdle /\ PwIdle /\ HooksIdle
    /\ settings \in AllSettings
    /\ tokText = <<>>
    /\ tokens = <<>>
    /\ tokenized = FALSE
    /\ \E pair \in DiffPairs \cup ExamplePairs :
          oldText = pair[1] /\ newText = pair[2]
    /\ processed = <<>>
    /\ compared = FALSE

Compare ==
    /\ ~compared
    /\ processed' = diffResult(oldText, newText, settings)
    /\ compared' = TRUE
    /\ UNCHANGED <<settings, tokText, tokens, tokenized, oldText, newText>>
    /\ UNCHANGED <<cryptoVars, diffVars, pwVars, hookVars>>

NextTextDiff == Compare

SpecTextDiff == InitTextDiff /\ [][NextTextDiff]_vars

----------------------------------------------------------------------------
(* usePasswordGenerator *)

\* CHARSETS; "backtick" stands for the grave accent U+0060.
UPPERCASE ==
    <<"A", "B", "C", "D", "E", "F", "G", "H", "I", "J", "K", "L", "M",
     "N", "O", "P", "Q", "R", "S", "T", "U", "V", "W", "X", "Y", "Z">>

LOWERCASE ==
    <<"a", "b", "c", "d", "e", "f", "g", "h", "i", "j", "k", "l", "m",
     "n", "o", "p", "q", "r", "s", "t", "u", "v", "w", "x", "y", "z">>

NUMBERS ==
    <<"0", "1", "2", "3", "4", "5", "6", "7", "8", "9">>

SYMBOLS ==
    <<"!", "@", "#", "$", "%", "^", "&", "*", "(", ")", "_", "+", "~",
     "backtick", "|", "}", "{", "[", "]", ":", ";", "?", ">", "<", ",", ".", "/",
     "-", "=">>

AMBIGUOUS ==
    <<"I", "l", "1", "O", "0">>

AllOptions ==
    [uppercase : BOOLEAN, lowercase : BOOLEAN, numbers : BOOLEAN, symbols : BOOLEAN,
     excludeAmbiguous : BOOLEAN]

\* The raw values window.crypto.getRandomValues gives are 0..RawMax; the
\* code's 0xffffffff is RawMax with RawBits = 32.
RawMax == 2 ^ RawBits - 1

\* A source of raw random values: a finite tape read cyclically.  Every tape
\* holds a 0, which no call rejects, so every call returns.
Tape(seed) ==
    [n \in 1..TapeLen |->
        IF n = TapeLen THEN 0
        ELSE (seed * 97 + n * 61 + n * n * seed * 13) % (RawMax + 1)]

Tapes == {Tape(seed) : seed \in 1..NumTapes}

TapeAt(tape, pos) == tape[((pos - 1) % Len(tape)) + 1]

\* Faulty variant: no raw value is rejected.
RejectLimit_None(max) == RawMax + 1

\* Math.floor(0xffffffff / max) * max
RejectLimit(max) == (RawMax \div max) * max

\* getSecureRandomInt(max) reading the tape from pos on: the value returned
\* and the position after the last value read.
RECURSIVE getSecureRandomInt(_, _, _)
getSecureRandomInt(max, tape, pos) ==
    LET value == TapeAt(tape, pos)
    IN  IF value >= RejectLimit(max) THEN getSecureRandomInt(max, tape, pos + 1)
        ELSE [value |-> value % max, next |-> pos + 1]

isValid(opts) == opts.uppercase \/ opts.lowercase \/ opts.numbers \/ opts.symbols

NotAmbiguous(c) == \A i \in 1..Len(AMBIGUOUS) : AMBIGUOUS[i] # c

sanitize(set, opts) == IF ~opts.excludeAmbiguous THEN set ELSE SelectSeq(set, NotAmbiguous)

Pools(opts) ==
    (IF opts.uppercase THEN <<sanitize(UPPERCASE, opts)>> ELSE <<>>)
    \o (IF opts.lowercase THEN <<sanitize(LOWERCASE, opts)>> ELSE <<>>)
    \o (IF opts.numbers THEN <<sanitize(NUMBERS, opts)>> ELSE <<>>)
    \o (IF opts.symbols THEN <<sanitize(SYMBOLS, opts)>> ELSE <<>>)

\* pools.map(pool => pool.charAt(getSecureRandomInt(pool.length))), pools i..
RECURSIVE PickEach(_, _, _, _)
PickEach(pools, i, tape, pos) ==
    IF i > Len(pools) THEN [chars |-> <<>>, next |-> pos]
    ELSE LET r == getSecureRandomInt(Len(pools[i]), tape, pos)
             rest == PickEach(pools, i + 1, tape, r.next)
         IN  [chars |-> <<pools[i][r.value + 1]>> \o rest.chars, next |-> rest.next]

\* Faulty variant: the fill loop runs once more than it should.
RECURSIVE Fill_OneMore(_, _, _, _, _)
Fill_OneMore(chars, targetLength, fullCharset, tape, pos) ==
    IF Len(chars) > targetLength THEN [chars |-> chars, next |-> pos]
    ELSE LET r == getSecureRandomInt(Len(fullCharset), tape, pos)
         IN  Fill_OneMore(Append(chars, fullCharset[r.value + 1]), targetLength,
                          fullCharset, tape, r.next)

\* The fill loop.
RECURSIVE Fill(_, _, _, _, _)
Fill(chars, targetLength, fullCharset, tape, pos) ==
    IF Len(chars) >= targetLength THEN [chars |-> chars, next |-> pos]
    ELSE LET r == getSecureRandomInt(Len(fullCharset), tape, pos)
         IN  Fill(Append(chars, fullCharset[r.value + 1]), targetLength, fullCharset,
                  tape, r.next)

\* Faulty variant: position i is overwritten instead of swapped.
RECURSIVE Shuffle_Overwrite(_, _, _, _)
Shuffle_Overwrite(chars, i, tape, pos) ==
    IF i <= 0 THEN [chars |-> chars, next |-> pos]
    ELSE LET r == getSecureRandomInt(i + 1, tape, pos)
             j == r.value
             copied == [chars EXCEPT ![i + 1] = chars[j + 1]]
         IN  Shuffle_Overwrite(copied, i - 1, tape, r.next)

\* The Fisher-Yates loop from index i (0-based) down to 1.
RECURSIVE Shuffle(_, _, _, _)
Shuffle(chars, i, tape, pos) ==
    IF i <= 0 THEN [chars |-> chars, next |-> pos]
    ELSE LET r == getSecureRandomInt(i + 1, tape, pos)
             j == r.value
             swapped == [chars EXCEPT ![i + 1] = chars[j + 1], ![j + 1] = chars[i + 1]]
         IN  Shuffle(swapped, i - 1, tape, r.next)

\* Faulty variant: a raw value is read before the options are looked at.
generate_DrawFirst(len, opts, tape) ==
    IF ~isValid(opts) THEN [password |-> <<>>, drawn |-> 1]
    ELSE LET pools == Pools(opts)
             fullCharset == Flatten(pools)
             picked == PickEach(pools, 1, tape, 2)
             targetLength == Max(len, Len(picked.chars))
             filled == Fill(picked.chars, targetLength, fullCharset, tape, picked.next)
             shuffled == Shuffle(filled.chars, Len(filled.chars) - 1, tape, filled.next)
         IN  [password |-> shuffled.chars, drawn |-> shuffled.next - 1]

\* generate(): the password set and the number of raw values read.
generate(len, opts, tape) ==
    IF ~isValid(opts) THEN [password |-> <<>>, drawn |-> 0]
    ELSE LET pools == Pools(opts)
             fullCharset == Flatten(pools)
         IN  IF Len(fullCharset) = 0 THEN [password |-> <<>>, drawn |-> 0]
             ELSE LET picked == PickEach(pools, 1, tape, 1)
                      targetLength == Max(len, Len(picked.chars))
                      filled == Fill(picked.chars, targetLength, fullCharset, tape, picked.next)
                      shuffled == Shuffle(filled.chars, Len(filled.chars) - 1, tape, filled.next)
                  IN  [password |-> shuffled.chars, drawn |-> shuffled.next - 1]

sanitizeSize(set, opts) ==
    IF ~opts.excludeAmbiguous THEN Len(set) ELSE Len(SelectSeq(set, NotAmbiguous))

charsetSize(opts) ==
    (IF opts.uppercase THEN sanitizeSize(UPPERCASE, opts) ELSE 0)
    + (IF opts.lowercase THEN sanitizeSize(LOWERCASE, opts) ELSE 0)
    + (IF opts.numbers THEN sanitizeSize(NUMBERS, opts) ELSE 0)
    + (IF opts.symbols THEN sanitizeSize(SYMBOLS, opts) ELSE 0)

\* Math.log2 in millionths of a bit, for the charset sizes that can occur.
Log2Micro ==
    8 :> 3000000 @@ 10 :> 3321928 @@ 24 :> 4584963 @@ 25 :> 4643856 @@ 26 :> 4700440
    @@ 29 :> 4857981 @@ 32 :> 5000000 @@ 33 :> 5044394 @@ 36 :> 5169925 @@ 37 :> 5209453
    @@ 39 :> 5285402 @@ 49 :> 5614710 @@ 52 :> 5700440 @@ 53 :> 5727920 @@ 54 :> 5754888
    @@ 55 :> 5781360 @@ 57 :> 5832890 @@ 61 :> 5930737 @@ 62 :> 5954196 @@ 65 :> 6022368
    @@ 78 :> 6285402 @@ 81 :> 6339850 @@ 86 :> 6426265 @@ 91 :> 6507795

\* The entropy memo: Math.round(length * Math.log2(charsetSize)).
entropy(len, opts) ==
    IF ~isValid(opts) THEN 0
    ELSE IF charsetSize(opts) = 0 THEN 0
    ELSE (len * Log2Micro[charsetSize(opts)] + 500000) \div 1000000

Lengths == 1..MaxPwLength \cup {INITIAL_LENGTH}

\* The hook is given any length and any options; its password starts empty.
InitPassword ==
    /\ CryptoIdle /\ AlignIdle /\ TextIdle /\ HooksIdle
    /\ length \in Lengths
    /\ options \in AllOptions
    /\ password = <<>>
    /\ drawn = 0
    /\ mounted = FALSE

\* Render with the given length and options, then the effect that calls
\* generate().
RenderAndGenerate(len, opts, tape) ==
    LET g == generate(len, opts, tape)
    IN  /\ length' = len
        /\ options' = opts
        /\ password' = g.password
        /\ drawn' = g.drawn
        /\ mounted' = TRUE
        /\ UNCHANGED <<cryptoVars, diffVars, textVars, hookVars>>

\* First render: the effect runs generate().
Mount(tape) == ~mounted /\ RenderAndGenerate(length, options, tape)

\* setLength(len); generate is re-created and the effect calls it.
SetLength(len, tape) == mounted /\ len # length /\ RenderAndGenerate(len, options, tape)

\* setOptions(opts); generate is re-created and the effect calls it.
SetOptions(opts, tape) == mounted /\ RenderAndGenerate(length, opts, tape)

\* The caller invokes the generate function the hook returned.
Generate(tape) == mounted /\ RenderAndGenerate(length, options, tape)

NextPassword ==
    \/ \E tape \in Tapes : Mount(tape)
    \/ \E len \in Lengths, tape \in Tapes : SetLength(len, tape)
    \/ \E opts \in AllOptions, tape \in Tapes : SetOptions(opts, tape)
    \/ \E tape \in Tapes : Generate(tape)

SpecPassword == InitPassword /\ [][NextPassword]_vars

----------------------------------------------------------------------------
(* PasswordGen: handleToggleOption *)

\* Largest number of handleToggleOption calls made from one render.
MaxStaleToggles == 2

MainOptions == {"uppercase", "lowercase", "numbers", "symbols"}

OptionKeys == MainOptions \cup {"excludeAmbiguous"}

\* The guard of handleToggleOption, on the options of the render whose
\* handler is called: the key is the only main option active.
ToggleRefused(key, seen) ==
    /\ key \in MainOptions
    /\ ~(\E k \in MainOptions \ {key} : seen[k])
    /\ seen[key]

\* PasswordGen as first rendered, with at least one class active.
InitToggle ==
    /\ CryptoIdle /\ AlignIdle /\ TextIdle /\ SampleIdle /\ QrIdle /\ WfIdle /\ JfIdle
    /\ length = INITIAL_LENGTH
    /\ options \in {o \in AllOptions : isValid(o)}
    /\ password = <<>>
    /\ drawn = 0
    /\ mounted = FALSE
    /\ tgSeen = options
    /\ tgQueued = 0

\* handleToggleOption(key) of the latest render: the guard reads that
\* render's options, the update is applied to the latest state.
handleToggleOption(key) ==
    /\ mounted
    /\ tgQueued < MaxStaleToggles
    /\ ~ToggleRefused(key, tgSeen)
    /\ options' = [options EXCEPT ![key] = ~options[key]]
    /\ tgQueued' = tgQueued + 1
    /\ UNCHANGED <<length, password, drawn, mounted, tgSeen>>
    /\ UNCHANGED <<cryptoVars, diffVars, textVars, sampleVars, qrVars, wfVars, jfVars>>

\* The component renders with the latest options and the hook's effect
\* calls generate(): on the first render, and after queued updates.
Rerender(tape) ==
    /\ ~mounted \/ tgQueued > 0
    /\ LET g == generate(length, options, tape)
       IN  /\ password' = IF ~mounted \/ options # tgSeen THEN g.password ELSE password
           /\ drawn' = IF ~mounted \/ options # tgSeen THEN g.drawn ELSE drawn
    /\ mounted' = TRUE
    /\ tgSeen' = options
    /\ tgQueued' = 0
    /\ UNCHANGED <<length, options>>
    /\ UNCHANGED <<cryptoVars, diffVars, textVars, sampleVars, qrVars, wfVars, jfVars>>

NextToggle ==
    \/ \E key \in OptionKeys : handleToggleOption(key)
    \/ \E tape \in Tapes : Rerender(tape)

SpecToggle == InitToggle /\ [][NextToggle]_vars

----------------------------------------------------------------------------
(* getSecureRandomInt on its own *)

\* The largest argument generate passes: the length of the full charset
\* (line 77) or of the password being shuffled (line 82), which is at most
\* the largest length the page's slider gives.
MaxSampleBound ==
    Max(Len(UPPERCASE) + Len(LOWERCASE) + Len(NUMBERS) + Len(SYMBOLS), MAX_LENGTH)

\* What the generator gives: any raw value, then the smallest or the largest
\* raw value, then 0, which no call rejects.
SampleTapes == {<<r, q, 0>> : r \in 0..RawMax, q \in {0, RawMax}}

InitSample ==
    /\ CryptoIdle /\ AlignIdle /\ TextIdle /\ PwIdle /\ QrIdle /\ WfIdle /\ JfIdle /\ TgIdle
    /\ sampleMax \in 1..MaxSampleBound
    /\ sampleTape \in SampleTapes
    /\ sampleOut = [value |-> 0, next |-> 0]

\* One call of getSecureRandomInt(sampleMax).
Sample ==
    /\ sampleOut.next = 0
    /\ sampleOut' = getSecureRandomInt(sampleMax, sampleTape, 1)
    /\ UNCHANGED <<sampleMax, sampleTape>>
    /\ UNCHANGED <<cryptoVars, diffVars, textVars, pwVars, qrVars, wfVars, jfVars, tgVars>>

NextSample == Sample

SpecSample == InitSample /\ [][NextSample]_vars

----------------------------------------------------------------------------
(* useQRCode *)

\* Largest number of toDataURL calls in flight at once.
MaxInFlight == 2

\* What the caller passes: a text and a settings object (here its scale).
QrTexts == {<<>>, <<" ">>, <<"a">>, <<"b">>}

QrScales == {1, 2}

QrInputs == QrTexts \X QrScales

\* The data URL QRCode.toDataURL resolves with for the given arguments.
DataUrl(args) == <<"data:image/png", args[1], args[2]>>

\* !text.trim()
IsBlank(text) == Trim(text) = <<>>

\* First render with the given input; the effect has set its timer.
InitQR ==
    /\ CryptoIdle /\ AlignIdle /\ TextIdle /\ PwIdle /\ SampleIdle /\ WfIdle /\ JfIdle /\ TgIdle
    /\ qrInput \in QrInputs
    /\ qrTimer = <<qrInput>>
    /\ qrFlight = <<>>
    /\ qrDataUrl = <<>>
    /\ qrLoading = FALSE
    /\ qrError = "null"

\* The caller renders with a new input or a new settings object: the
\* effect's cleanup clears the timer and the effect sets a new one.
ChangeInput(args) ==
    /\ qrInput' = args
    /\ qrTimer' = <<args>>
    /\ UNCHANGED <<qrFlight, qrDataUrl, qrLoading, qrError>>
    /\ UNCHANGED <<cryptoVars, diffVars, textVars, pwVars, sampleVars, wfVars, jfVars, tgVars>>

\* The timer expires: generateQR runs up to its await.
TimerFires ==
    /\ qrTimer # <<>>
    /\ qrTimer' = <<>>
    /\ IF IsBlank(qrTimer[1][1])
       THEN /\ qrDataUrl' = <<>>
            /\ qrLoading' = FALSE
            /\ UNCHANGED <<qrFlight, qrError>>
       ELSE /\ Len(qrFlight) < MaxInFlight
            /\ qrLoading' = TRUE
            /\ qrError' = "null"
            /\ qrFlight' = Append(qrFlight, qrTimer[1])
            /\ UNCHANGED qrDataUrl
    /\ UNCHANGED qrInput
    /\ UNCHANGED <<cryptoVars, diffVars, textVars, pwVars, sampleVars, wfVars, jfVars, tgVars>>

\* The continuation of generateQR after its await: try, catch, finally.
Settles(k, ok) ==
    /\ IF ok THEN qrDataUrl' = DataUrl(qrFlight[k]) /\ UNCHANGED qrError
             ELSE qrError' = "Failed to generate QR code" /\ UNCHANGED qrDataUrl
    /\ qrLoading' = FALSE

\* The k-th toDataURL call in flight resolves (ok) or rejects.
Complete(k, ok) ==
    /\ k \in 1..Len(qrFlight)
    /\ Settles(k, ok)
    /\ qrFlight' = [h \in 1..(Len(qrFlight) - 1) |-> IF h < k THEN qrFlight[h] ELSE qrFlight[h + 1]]
    /\ UNCHANGED <<qrInput, qrTimer>>
    /\ UNCHANGED <<cryptoVars, diffVars, textVars, pwVars, sampleVars, wfVars, jfVars, tgVars>>

NextQR ==
    \/ \E args \in QrInputs : ChangeInput(args)
    \/ TimerFires
    \/ \E k \in 1..MaxInFlight, ok \in BOOLEAN : Complete(k, ok)

SpecQR == InitQR /\ [][NextQR]_vars

----------------------------------------------------------------------------
(* WordFrequency: the debounced analysis effect *)

\* Largest run id the model lets the effect reach.
MaxRuns == 4

WfTexts == {<<>>, <<" ">>, <<"a">>, <<"a", " ", "a">>}

\* text, mode, limit, language: the effect's dependencies.
WfInputs == WfTexts \X {"word", "char"} \X {20, 50} \X {"en", "zh"}

\* The stats and the engine a run computes from the values its closure
\* holds; the engine of word mode depends on whether Intl.Segmenter exists.
WfResult(input, hasSegmenter) ==
    [stats  |-> <<"stats", input[1], input[2], input[3]>>,
     engine |-> IF input[2] = "char" THEN "Character-Level"
                ELSE IF hasSegmenter THEN "Standard (Intl)" ELSE "Basic (Regex)"]

\* Faulty variant: the cleanup leaves the timer pending.
ClearTimeout_Keep(timers) == timers

\* The effect's cleanup, clearTimeout(timer): the render's timer is gone.
ClearTimeout(timers) == {}

\* First render: the effect has taken run id 1 and set its timer.
InitWordFrequency ==
    /\ CryptoIdle /\ AlignIdle /\ TextIdle /\ PwIdle /\ SampleIdle /\ QrIdle /\ JfIdle /\ TgIdle
    /\ wfInput = <<<<>>, "word", 20, "en">>
    /\ wfRunId = 1
    /\ wfTimers = {[id |-> 1, input |-> wfInput]}
    /\ wfStats = <<>>
    /\ wfEngine = "Idle"
    /\ wfAnalyzing = FALSE
    /\ wfExecuted = <<>>
    /\ wfCleared = {}

\* text, mode, limit or language changes: the cleanup of the previous
\* effect runs, then the effect takes the next run id and sets a timer.
ChangeDeps(input) ==
    /\ input # wfInput
    /\ wfRunId < MaxRuns
    /\ wfInput' = input
    /\ wfRunId' = wfRunId + 1
    /\ wfTimers' = ClearTimeout(wfTimers) \cup {[id |-> wfRunId + 1, input |-> input]}
    /\ wfCleared' = wfCleared \cup {run.id : run \in wfTimers}
    /\ UNCHANGED <<wfStats, wfEngine, wfAnalyzing, wfExecuted>>
    /\ UNCHANGED <<cryptoVars, diffVars, textVars, pwVars, sampleVars, qrVars, jfVars, tgVars>>

\* A timer expires and analyzeText runs; it has no await, so it runs to
\* its end before anything else happens.
Analyze(run, hasSegmenter) ==
    LET latest == run.id = wfRunId
        blank  == IsBlank(run.input[1])
        r      == WfResult(run.input, hasSegmenter)
    IN  /\ run \in wfTimers
        /\ wfTimers' = wfTimers \ {run}
        /\ wfStats' = IF ~latest THEN wfStats ELSE IF blank THEN <<>> ELSE r.stats
        /\ wfEngine' = IF ~latest THEN wfEngine ELSE IF blank THEN "Idle" ELSE r.engine
        /\ wfAnalyzing' = IF blank THEN wfAnalyzing ELSE ~latest
        /\ wfExecuted' = Append(wfExecuted, [id |-> run.id, latest |-> wfRunId, committed |-> latest])
        /\ UNCHANGED <<wfInput, wfRunId, wfCleared>>
        /\ UNCHANGED <<cryptoVars, diffVars, textVars, pwVars, sampleVars, qrVars, jfVars, tgVars>>

NextWordFrequency ==
    \/ \E input \in WfInputs : ChangeDeps(input)
    \/ \E run \in wfTimers, hasSegmenter \in BOOLEAN : Analyze(run, hasSegmenter)

SpecWordFrequency == InitWordFrequency /\ [][NextWordFrequency]_vars

----------------------------------------------------------------------------
(* JSONFormatter: parseAndSetJSON *)

\* Largest number of deferred callbacks waiting at once.
MaxPending == 1

\* An editor text is <<kind, keys, layout>>: a blank text, a text that is
\* not JSON, or the text of an object with the given keys in the given
\* order, laid out as typed by hand, minified, or indented by 2 or 4.
JfBlank == <<"blank", <<>>, "">>

JfInvalid == <<"invalid", <<>>, "{bad">>

JfObject(keys, layout) == <<"object", keys, layout>>

JfKeyOrders == {<<"a", "b">>, <<"b", "a">>}

JfTexts ==
    {JfBlank, JfInvalid}
        \cup {JfObject(keys, layout) : keys \in JfKeyOrders, layout \in {"typed", "min", "2", "4"}}

\* JSON.parse: the keys of the object in text order; throws on other texts.
JfParses(text) == text[1] = "object"

JfParse(text) == text[2]

\* JSON.stringify(obj, null, spaces) and JSON.stringify(obj)
JfStringify(obj, layout) == JfObject(obj, layout)

\* sortKeys on an object of two keys.
sortKeys(obj) == IF obj = <<"b", "a">> THEN <<"a", "b">> ELSE obj

JfOps == {"format2", "format4", "minify", "sort"}

\* The transformFn each button passes to parseAndSetJSON.
TransformFn(op, obj) ==
    CASE op = "format2" -> JfStringify(obj, "2")
      [] op = "format4" -> JfStringify(obj, "4")
      [] op = "minify"  -> JfStringify(obj, "min")
      [] OTHER          -> JfStringify(sortKeys(obj), "2")

InitJSONFormatter ==
    /\ CryptoIdle /\ AlignIdle /\ TextIdle /\ PwIdle /\ SampleIdle /\ QrIdle /\ WfIdle /\ TgIdle
    /\ jfJson = JfBlank
    /\ jfError = ""
    /\ jfPending = <<>>
    /\ jfRan = <<>>

\* The user edits the text; the effect copies it to jsonRef.
TypeJson(text) ==
    /\ text # jfJson
    /\ jfJson' = text
    /\ UNCHANGED <<jfError, jfPending, jfRan>>
    /\ UNCHANGED <<cryptoVars, diffVars, textVars, pwVars, sampleVars, qrVars, wfVars, tgVars>>

\* parseAndSetJSON up to its setTimeout: snapshot, blank check, defer.
RequestOp(op) ==
    /\ jfJson[1] # "blank"
    /\ Len(jfPending) < MaxPending
    /\ jfPending' = Append(jfPending, [source |-> jfJson, op |-> op])
    /\ UNCHANGED <<jfJson, jfError, jfRan>>
    /\ UNCHANGED <<cryptoVars, diffVars, textVars, pwVars, sampleVars, qrVars, wfVars, tgVars>>

\* The oldest deferred callback runs: parse the snapshot, functional
\* update of json, setError.
RunDeferred ==
    /\ jfPending # <<>>
    /\ LET job == Head(jfPending)
       IN  /\ IF JfParses(job.source)
              THEN /\ jfJson' = IF jfJson = job.source
                                THEN TransformFn(job.op, JfParse(job.source)) ELSE jfJson
                   /\ jfError' = ""
              ELSE /\ jfError' = "invalidJson"
                   /\ UNCHANGED jfJson
           /\ jfRan' = <<[stale |-> job.source # jfJson,
                          kept  |-> jfJson' = jfJson /\ jfError' = jfError]>>
    /\ jfPending' = Tail(jfPending)
    /\ UNCHANGED <<cryptoVars, diffVars, textVars, pwVars, sampleVars, qrVars, wfVars, tgVars>>

NextJSONFormatter ==
    \/ \E text \in JfTexts : TypeJson(text)
    \/ \E op \in JfOps : RequestOp(op)
    \/ RunDeferred

SpecJSONFormatter == InitJSONFormatter /\ [][NextJSONFormatter]_vars


----------------------------------------------------------------------------
(* Properties of the codec (checked under Spec) *)

\* decryptText has been called on the current envelope.
Decrypted == result.kind # "idle"

\* The envelope is the output of encryptText, unmodified.
Untampered == enc.valid /\ tamper = NoTamper

IntegrityError == CryptoError(INTEGRITY_FAILED)

\* C1: for every plaintext (the empty string included) and every passphrase,
\* decrypting the AES envelope with the same passphrase returns the plaintext
\* and raises no error.
C1_RoundTripEveryText ==
    (Untampered /\ Decrypted /\ enc.algo = AES /\ dec.pass = enc.pass)
        => result = Returned(enc.text)

\* The round trip does hold for every non-empty plaintext.
RoundTripNonEmpty ==
    (Untampered /\ Decrypted /\ enc.algo = AES /\ dec.pass = enc.pass /\ enc.text # <<>>)
        => result = Returned(enc.text)

RoundTripNonEmptyReached ==
    /\ Untampered /\ Decrypted /\ enc.algo = AES /\ dec.pass = enc.pass
    /\ enc.text = <<"e_acute", "a">>
    /\ result = Returned(<<"e_acute", "a">>)

\* C2: decrypting an unmodified envelope with another passphrase raises
\* IntegrityFailed, and the error is the very same value (kind, code and
\* message) as the one raised for an envelope whose ct was modified.
C2_WrongPassphraseIsIntegrityFailed ==
    /\ (Untampered /\ Decrypted /\ dec.pass # enc.pass) => result = IntegrityError
    /\ (enc.valid /\ tamper = [what |-> "ct_flip", remac |-> FALSE] /\ Decrypted
          /\ dec.pass = enc.pass)
        => result = IntegrityError

C2_Witness ==
    Untampered /\ Decrypted /\ dec.pass # enc.pass /\ result = IntegrityError

\* C3: replacing any single character of ct by a different character, then
\* decrypting with the passphrase used to encrypt, raises IntegrityFailed.
C3_TamperedCtIsIntegrityFailed ==
    (enc.valid /\ tamper.what = "ct_flip" /\ ~tamper.remac /\ Decrypted /\ dec.pass = enc.pass)
        => (result.kind = "CryptoError" /\ result.code = INTEGRITY_FAILED)

C3_Witness ==
    /\ enc.valid /\ tamper.what = "ct_flip" /\ ~tamper.remac
    /\ Decrypted /\ dec.pass = enc.pass
    /\ result.code = INTEGRITY_FAILED
    /\ Len(packed.val.ct.s) = 2 * B64Parts
    /\ packed.val.ct.s[Len(packed.val.ct.s)] = LitChar("A")

\* The stored mac equals the MAC recomputed from (v, a, s, iv, ct) under the
\* MAC key derived from the passphrase and the envelope's salt.
MacVerifies(payload, passphrase) ==
    /\ payload.s.t = "str"
    /\ payload.mac =
         Str(HmacSHA256(
               JoinPipe(<<payload.v, payload.a, payload.s, payload.iv, payload.ct>>),
               deriveKeys(passphrase, HexParse(payload.s.s)).macKey))

\* C4: cipher.decrypt is called only after the MAC has been recomputed and
\* found equal to the stored mac; an envelope whose MAC does not verify never
\* reaches the cipher.
C4_MacBeforeDecrypt ==
    Decrypted =>
        \A i \in 1..Len(calls) :
            calls[i] = "cipher.decrypt" =>
                /\ \E j \in 1..(i - 1) : calls[j] = "HmacSHA256"
                /\ MacVerifies(packed.val, dec.pass)

C4_Witness ==
    /\ Decrypted
    /\ \E i \in 1..Len(calls) : calls[i] = "cipher.decrypt"
    /\ tamper.remac
    /\ result.code = DECRYPTION_FAILED

\* The envelope text is a JSON object that has all six fields.
AllFieldsPresent ==
    packed.json = "object" /\ \A f \in FieldNames : packed.val[f].t # "absent"

\* C5: an input that is no parseable JSON or lacks one of v, a, s, iv, ct, mac
\* is rejected with InvalidPayload before anything else is done.
C5_MissingFieldIsInvalidPayload ==
    (Decrypted /\ ~AllFieldsPresent)
        => (result = CryptoError(INVALID_PAYLOAD) /\ calls = <<"JSON.parse">>)

\* C6: a parseable envelope with all fields present whose v is not 1 raises
\* UnsupportedVersion, whatever its MAC and the passphrase.
C6_OtherVersionIsUnsupported ==
    (Decrypted /\ AllFieldsPresent /\ tamper.what = "v" /\ packed.val.v # Num(VERSION))
        => result = CryptoError(UNSUPPORTED_VERSION)

\* C7: decryptText returns a plaintext or throws a CryptoError whose code is
\* InvalidPayload, UnsupportedVersion, IntegrityFailed or DecryptionFailed.
C7_OnlyTypedErrors ==
    Decrypted =>
        \/ result.kind = "ok"
        \/ /\ result.kind = "CryptoError"
           /\ result.code \in {INVALID_PAYLOAD, UNSUPPORTED_VERSION, INTEGRITY_FAILED,
                               DECRYPTION_FAILED}

\* What encryptText returns: exactly the six fields, v = 1, a the requested
\* algorithm, mac the HMAC of v|a|s|iv|ct under the derived MAC key.
EnvelopeWellFormed ==
    Untampered =>
        /\ packed.json = "object"
        /\ DOMAIN packed.val = FieldNames
        /\ packed.val.v = Num(1)
        /\ packed.val.a = Str(enc.algo)
        /\ MacVerifies(packed.val, enc.pass)

\* C8: the envelope is well formed, and changing a, s or iv (leaving it
\* non-empty, v = 1, the mac as it was) yields IntegrityFailed.
C8_FramingChangeIsIntegrityFailed ==
    /\ EnvelopeWellFormed
    /\ (enc.valid /\ tamper.what \in {"a", "s", "iv"} /\ ~tamper.remac
          /\ Truthy(packed.val[tamper.what]) /\ Decrypted)
        => result = IntegrityError

\* The same does hold when a, s or iv is changed to another non-empty
\* string.
FramingStringChangeIsIntegrityFailed ==
    /\ EnvelopeWellFormed
    /\ (enc.valid /\ tamper.what \in {"a", "s", "iv"} /\ ~tamper.remac
          /\ packed.val[tamper.what].t = "str" /\ Truthy(packed.val[tamper.what])
          /\ Decrypted)
        => result = IntegrityError

FramingStringChangeReached ==
    /\ enc.valid /\ tamper = [what |-> "iv", remac |-> FALSE]
    /\ packed.val.iv.t = "str" /\ Truthy(packed.val.iv)
    /\ HexParse(packed.val.iv.s) = RandomBytes(IV_SIZE_BYTES, 2)
    /\ Decrypted /\ dec.pass = enc.pass
    /\ result = IntegrityError

----------------------------------------------------------------------------
(* Properties of the aligner (checked under SpecAlign) *)

Renders(items) == [i \in 1..Len(items) |-> items[i].render]

Keys(items) == [i \in 1..Len(items) |-> items[i].diff]

IsOldSide(op) == op.type \in {"unchanged", "removed"}

IsNewSide(op) == op.type \in {"unchanged", "added"}

IsUnchanged(op) == op.type = "unchanged"

\* The old-side items of the Unchanged and Removed entries, in script order.
OldSide(ops) ==
    LET sel == SelectSeq(ops, IsOldSide)
    IN  Flatten([i \in 1..Len(sel) |-> sel[i].oldItem])

\* The new-side items of the Unchanged and Added entries, in script order.
NewSide(ops) ==
    LET sel == SelectSeq(ops, IsNewSide)
    IN  Flatten([i \in 1..Len(sel) |-> sel[i].newItem])

\* C9: the old-side items of the script are exactly old, the new-side items
\* exactly new.
C9_ScriptReconstructsBothSides ==
    aligned => (OldSide(script) = oldItems /\ NewSide(script) = newItems)

C9_Witness ==
    /\ aligned
    /\ \E i, j, k \in 1..Len(script) :
          /\ script[i].type = "unchanged" /\ script[i].oldItem # script[i].newItem
          /\ script[j].type = "added"
          /\ script[k].type = "removed"
    /\ OldSide(script) = oldItems /\ NewSide(script) = newItems

\* z is a subsequence of y.
RECURSIVE IsSubseq(_, _)
IsSubseq(z, y) ==
    IF z = <<>> THEN TRUE
    ELSE IF y = <<>> THEN FALSE
    ELSE IF Head(z) = Head(y) THEN IsSubseq(Tail(z), Tail(y))
    ELSE IsSubseq(z, Tail(y))

\* The elements of x at the positions in P, in order.
RECURSIVE Pick(_, _, _)
Pick(x, P, i) ==
    IF i > Len(x) THEN <<>>
    ELSE IF i \in P THEN <<x[i]>> \o Pick(x, P, i + 1)
    ELSE Pick(x, P, i + 1)

\* Length of a longest common subsequence of x and y, by enumeration.
LcsLen(x, y) ==
    LET common == {Len(Pick(x, P, 1)) : P \in {Q \in SUBSET (1..Len(x)) : IsSubseq(Pick(x, Q, 1), y)}}
    IN  CHOOSE l \in common : \A k \in common : k <= l

NumUnchanged(ops) == Len(SelectSeq(ops, IsUnchanged))

\* C10: the script has exactly LCS(old, new) Unchanged entries (their keys
\* equal), so its length is n + m - LCS, between max(n, m) and n + m; and
\* align(X, X) is all Unchanged.
C10_ScriptIsMinimal ==
    aligned =>
        LET n == Len(oldItems)
            m == Len(newItems)
            lcs == LcsLen(Keys(oldItems), Keys(newItems))
        IN  /\ NumUnchanged(script) = lcs
            /\ \A i \in 1..Len(script) :
                  script[i].type = "unchanged"
                      => script[i].oldItem[1].diff = script[i].newItem[1].diff
            /\ Len(script) = n + m - lcs
            /\ Len(script) >= Max(n, m)
            /\ Len(script) <= n + m
            /\ (oldItems = newItems => NumUnchanged(script) = Len(script))

C10_Witness ==
    /\ aligned
    /\ Len(oldItems) = 3 /\ Len(newItems) = 3
    /\ Keys(oldItems) # Keys(newItems)
    /\ NumUnchanged(script) = 2
    /\ Len(script) = 4

----------------------------------------------------------------------------
(* Properties of the tokenizer (checked under SpecTokenize) *)

FiltersOff == ~settings.ignorePunctuation /\ ~settings.ignoreWhitespace

\* C11: with ignorePunctuation and ignoreWhitespace both false, the render
\* fields of tokenize(S), concatenated in order, are S.
C11_TokenizeRoundTrip ==
    (tokenized /\ FiltersOff) => Flatten(Renders(tokens)) = tokText

C11_Witness ==
    /\ tokenized /\ FiltersOff /\ settings.ignoreCase
    /\ tokText = <<"A", " ", "!">>
    /\ Renders(tokens) = <<<<"A">>, <<" ">>, <<"!">>>>

\* The class of a character for segmentation.
CharClass(c) ==
    IF c \in CjkChars THEN "cjk"
    ELSE IF c \in WordChars \/ c = "'" THEN "word"
    ELSE IF c \in SpaceChars THEN "space"
    ELSE "other"

\* Positions i such that a token ends after character i and another begins.
RECURSIVE CutsFrom(_, _, _)
CutsFrom(renders, k, at) ==
    IF k >= Len(renders) THEN {}
    ELSE {at + Len(renders[k])} \cup CutsFrom(renders, k + 1, at + Len(renders[k]))

Cuts(renders) == CutsFrom(renders, 1, 0)

\* C20: tokens are the single CJK ideographs and the maximal runs of word
\* characters and apostrophes, of whitespace, and of other characters.
C20_MaximalRuns ==
    (tokenized /\ FiltersOff) =>
        Cuts(Renders(tokens)) =
            {i \in 1..(Len(tokText) - 1) :
                \/ CharClass(tokText[i]) # CharClass(tokText[i + 1])
                \/ CharClass(tokText[i]) = "cjk"}

\* C20 amended: tokens are the single CJK ideographs, the maximal runs of
\* word characters and apostrophes, the maximal runs of whitespace, and every
\* other character on its own ("!!!" gives three tokens).
C20_RunsAndSingleOthers ==
    (tokenized /\ FiltersOff) =>
        /\ Flatten(Renders(tokens)) = tokText
        /\ Cuts(Renders(tokens)) =
            {i \in 1..(Len(tokText) - 1) :
                \/ CharClass(tokText[i]) # CharClass(tokText[i + 1])
                \/ CharClass(tokText[i]) \in {"cjk", "other"}}

C20_Witness ==
    /\ tokenized /\ FiltersOff
    /\ tokText = <<"!", "!", "!">>
    /\ Len(tokens) = 3

----------------------------------------------------------------------------
(* Properties of diffResult (checked under SpecTextDiff) *)

AllOff == [ignoreCase |-> FALSE, ignorePunctuation |-> FALSE, ignoreWhitespace |-> FALSE]

IsLF(c) == c = "LF"

\* Number of lines of a text: one more than its line feeds.
LineCount(text) == Len(SelectSeq(text, IsLF)) + 1

\* C12: two empty texts give an empty result; two identical non-empty texts
\* give one Unchanged line per input line and nothing else.
C12_EmptyAndIdentical ==
    compared =>
        /\ (oldText = <<>> /\ newText = <<>>) => processed = <<>>
        /\ (oldText = newText /\ oldText # <<>>) =>
              /\ Len(processed) = LineCount(oldText)
              /\ \A i \in 1..Len(processed) : processed[i].type = "unchanged"

C12_Witness ==
    /\ compared
    /\ oldText = CrLfText /\ newText = CrLfText
    /\ Len(processed) = 3
    /\ \A i \in 1..3 : processed[i].type = "unchanged"

HasNoLF(text) == SelectSeq(text, IsLF) = <<>>

\* C13: two one-line texts whose keys are equal under the settings give
\* exactly one Unchanged line without spans, showing the new text; so do
\* "Hello" and "HELLO" with ignoreCase.  No Unchanged line has spans.
C13_EqualKeysAreUnchanged ==
    compared =>
        /\ (/\ HasNoLF(oldText) /\ HasNoLF(newText)
            /\ ~(oldText = <<>> /\ newText = <<>>)
            /\ getDiffKey(oldText, settings) = getDiffKey(newText, settings))
              => processed = <<PlainLine("unchanged", newText)>>
        /\ (settings.ignoreCase /\ oldText = Hello /\ newText = HELLO)
              => processed = <<PlainLine("unchanged", HELLO)>>
        /\ \A i \in 1..Len(processed) :
              processed[i].type = "unchanged" => ~processed[i].hasWordDiff

C13_Witness ==
    /\ compared
    /\ settings = [AllOff EXCEPT !.ignoreCase = TRUE]
    /\ oldText = Hello /\ newText = HELLO
    /\ processed = <<PlainLine("unchanged", HELLO)>>

The == <<"T", "h", "e">>

quick == <<"q", "u", "i", "c", "k">>

brown == <<"b", "r", "o", "w", "n">>

fox == <<"f", "o", "x">>

SpanOf(type, value) == [type |-> type, value |-> value]

IsSpanIn(span, spans) == \E i \in 1..Len(spans) : spans[i] = span

\* C14: with all flags false, "The quick fox" against "The quick brown fox"
\* gives Removed then Added, both with spans; on the Added line "brown" is
\* Added and "The", "quick", "fox" are Unchanged, on the Removed line "fox"
\* is Unchanged.
C14_QuickBrownFox ==
    (compared /\ settings = AllOff /\ oldText = TheQuickFox /\ newText = TheQuickBrownFox) =>
        /\ Len(processed) = 2
        /\ processed[1].type = "removed" /\ processed[1].value = TheQuickFox
        /\ processed[2].type = "added" /\ processed[2].value = TheQuickBrownFox
        /\ processed[1].hasWordDiff /\ processed[2].hasWordDiff
        /\ IsSpanIn(SpanOf("added", brown), processed[2].wordDiff)
        /\ IsSpanIn(SpanOf("unchanged", The), processed[2].wordDiff)
        /\ IsSpanIn(SpanOf("unchanged", quick), processed[2].wordDiff)
        /\ IsSpanIn(SpanOf("unchanged", fox), processed[2].wordDiff)
        /\ IsSpanIn(SpanOf("unchanged", fox), processed[1].wordDiff)
        /\ \A i \in 1..Len(processed[2].wordDiff) :
              processed[2].wordDiff[i].value \in {The, quick, fox}
                  => processed[2].wordDiff[i].type = "unchanged"

C14_Witness ==
    /\ compared /\ settings = AllOff
    /\ oldText = TheQuickFox /\ newText = TheQuickBrownFox
    /\ Len(processed) = 2
    /\ Len(processed[1].wordDiff) = 5
    /\ Len(processed[2].wordDiff) = 7

SpanValues(spans) == [i \in 1..Len(spans) |-> spans[i].value]

\* C15: on every line that carries spans, the span substrings concatenated in
\* order are the line's text, under every combination of the flags.
C15_SpansCoverText ==
    compared =>
        \A i \in 1..Len(processed) :
            processed[i].hasWordDiff
                => Flatten(SpanValues(processed[i].wordDiff)) = processed[i].value

\* The spans do cover the text whenever ignorePunctuation and
\* ignoreWhitespace are both off.
SpansCoverTextFiltersOff ==
    (compared /\ FiltersOff) =>
        \A i \in 1..Len(processed) :
            processed[i].hasWordDiff
                => Flatten(SpanValues(processed[i].wordDiff)) = processed[i].value

----------------------------------------------------------------------------
(* Properties of the password generator (checked under SpecPassword) *)

\* The characters of one class that may be used under the options.
ClassChars(set, opts) ==
    {set[i] : i \in 1..Len(set)}
        \ (IF opts.excludeAmbiguous THEN {AMBIGUOUS[i] : i \in 1..Len(AMBIGUOUS)} ELSE {})

\* The active classes, each as the set of its usable characters.
ActiveClasses(opts) ==
    (IF opts.uppercase THEN {ClassChars(UPPERCASE, opts)} ELSE {})
    \cup (IF opts.lowercase THEN {ClassChars(LOWERCASE, opts)} ELSE {})
    \cup (IF opts.numbers THEN {ClassChars(NUMBERS, opts)} ELSE {})
    \cup (IF opts.symbols THEN {ClassChars(SYMBOLS, opts)} ELSE {})

AnyClassActive(opts) == opts.uppercase \/ opts.lowercase \/ opts.numbers \/ opts.symbols

\* C16: with at least one class active, the password holds a character of
\* every active class, ambiguous characters excluded when asked.
C16_EveryActivePoolCovered ==
    (mounted /\ AnyClassActive(options)) =>
        \A class \in ActiveClasses(options) :
            \E i \in 1..Len(password) : password[i] \in class

C16_Witness ==
    /\ mounted
    /\ options = [uppercase |-> TRUE, lowercase |-> TRUE, numbers |-> TRUE, symbols |-> TRUE,
                  excludeAmbiguous |-> TRUE]
    /\ length = 4
    /\ Len(password) = 4
    /\ \A class \in ActiveClasses(options) : \E i \in 1..4 : password[i] \in class

\* C17: with k active classes and length L the password has max(L, k)
\* characters.
C17_LengthIsMaxOfLengthAndPools ==
    (mounted /\ AnyClassActive(options)) =>
        LET k == Cardinality(ActiveClasses(options))
        IN  /\ Len(password) = Max(length, k)
            /\ (length >= k => Len(password) = length)
            /\ Len(password) >= k

C17_Witness ==
    /\ mounted
    /\ Cardinality(ActiveClasses(options)) = 4
    /\ length = 2
    /\ Len(password) = 4

\* C18: with no class selected, or an empty combined pool, generate sets the
\* empty password, reads no random value, and the entropy is 0.
C18_InvalidConfigurationIsEmpty ==
    (mounted /\ (~AnyClassActive(options) \/ ActiveClasses(options) \subseteq {{}})) =>
        /\ password = <<>>
        /\ drawn = 0
        /\ entropy(length, options) = 0

C18_Witness ==
    /\ mounted
    /\ ~AnyClassActive(options) /\ options.excludeAmbiguous
    /\ length = INITIAL_LENGTH
    /\ password = <<>> /\ drawn = 0

----------------------------------------------------------------------------
(* The tie-break of the aligner (checked under SpecAlign) *)

\* The script read from its last entry back to entry k, standing at (i, j):
\* equal keys give Unchanged, and different keys with tied scores for
\* skipping the old item and skipping the new item give Added.
RECURSIVE WalkBack(_, _, _, _, _)
WalkBack(ops, k, old, new, at) ==
    IF k = 0 THEN at = <<0, 0>>
    ELSE LET i == at[1]
             j == at[2]
             both == i > 0 /\ j > 0
             same == both /\ old[i].diff = new[j].diff
             tied == LcsLen(Keys(SubSeq(old, 1, i - 1)), Keys(SubSeq(new, 1, j)))
                       = LcsLen(Keys(SubSeq(old, 1, i)), Keys(SubSeq(new, 1, j - 1)))
         IN  /\ same => ops[k].type = "unchanged"
             /\ (both /\ ~same /\ tied) => ops[k].type = "added"
             /\ CASE ops[k].type = "unchanged" ->
                        both /\ WalkBack(ops, k - 1, old, new, <<i - 1, j - 1>>)
                  [] ops[k].type = "added" ->
                        j > 0 /\ WalkBack(ops, k - 1, old, new, <<i, j - 1>>)
                  [] OTHER ->
                        i > 0 /\ WalkBack(ops, k - 1, old, new, <<i - 1, j>>)

\* C19: walking back from the ends, equal keys give Unchanged; different
\* keys with tied scores give Added rather than Removed; the same inputs
\* give the same script.
C19_TieBreakPrefersAdded ==
    aligned =>
        /\ WalkBack(script, Len(script), oldItems, newItems, <<Len(oldItems), Len(newItems)>>)
        /\ script = computeDiff(oldItems, newItems)

C19_Witness ==
    /\ aligned
    /\ Keys(oldItems) = <<"a", "c">> /\ Keys(newItems) = <<"b", "c">>
    /\ [i \in 1..Len(script) |-> script[i].type] = <<"removed", "added", "unchanged">>

----------------------------------------------------------------------------
(* TextDiff: whitespace tokens in the word-level comparison *)

IsUnchangedSpan(span) == span.type = "unchanged"

\* The texts of the spans of a line that are marked unchanged, in order.
UnchangedValues(spans) == SpanValues(SelectSeq(spans, IsUnchangedSpan))

\* C21: with ignoreWhitespace false a whitespace-run token keeps its content
\* in its comparison key, so in a paired removed / added line a whitespace
\* run is marked unchanged only against a whitespace run of the same
\* content: one space is never aligned with two spaces.
C21_WhitespaceRunsKeepContent ==
    (compared /\ ~settings.ignoreWhitespace) =>
        \A i \in 1..Len(processed) :
            (processed[i].type = "removed" /\ processed[i].hasWordDiff) =>
                LET o == UnchangedValues(processed[i].wordDiff)
                    n == UnchangedValues(processed[i + 1].wordDiff)
                IN  \A k \in 1..Len(o) :
                        AllSpace(o[k]) => HalfWidthAll(o[k]) = HalfWidthAll(n[k])

----------------------------------------------------------------------------
(* TextDiff: pairing inside a changed block *)

\* The line-level script of the two texts.
LineScript == computeDiff(KeyedLines(oldText, settings), KeyedLines(newText, settings))

\* Position k of the script begins a changed block.
BlockStart(ops, k) ==
    /\ ops[k].type # "unchanged"
    /\ \/ k = 1
       \/ ops[k - 1].type = "unchanged"
       \/ ops[k - 1].type = "added" /\ ops[k].type = "removed"

\* The entries of out for the block of ops that begins at k, made of nr
\* removed lines followed by na added lines: pairs first, the excess after.
BlockIsPaired(ops, out, k) ==
    LET nr == RunOfType(ops, k, "removed")
        na == RunOfType(ops, k + nr, "added")
        m  == Min(nr, na)
    IN  /\ \A i \in 1..m :
              LET rem == out[k + 2 * (i - 1)]
                  add == out[k + 2 * (i - 1) + 1]
              IN  /\ rem.type = "removed" /\ rem.hasWordDiff
                  /\ rem.value = ops[k + i - 1].oldItem[1].render
                  /\ add.type = "added" /\ add.hasWordDiff
                  /\ add.value = ops[k + nr + i - 1].newItem[1].render
        /\ \A i \in (m + 1)..nr :
              LET rem == out[k + m + i - 1]
              IN  /\ rem.type = "removed" /\ ~rem.hasWordDiff
                  /\ rem.value = ops[k + i - 1].oldItem[1].render
        /\ \A i \in (m + 1)..na :
              LET add == out[k + m + i - 1]
              IN  /\ add.type = "added" /\ ~add.hasWordDiff
                  /\ add.value = ops[k + nr + i - 1].newItem[1].render

\* C22: in every changed block of the line-level script the i-th removed
\* line and the i-th added line are emitted as a pair, removed then added,
\* both with spans, for i up to the length of the shorter run; the lines
\* beyond it, and the lines of a run without a counterpart, are emitted
\* without spans; unchanged lines never carry spans.
C22_BlockPairing ==
    (compared /\ (oldText # <<>> \/ newText # <<>>)) =>
        LET ops == LineScript
        IN  /\ Len(processed) = Len(ops)
            /\ \A k \in 1..Len(ops) :
                  /\ BlockStart(ops, k) => BlockIsPaired(ops, processed, k)
                  /\ ops[k].type = "unchanged" =>
                        /\ processed[k].type = "unchanged"
                        /\ ~processed[k].hasWordDiff
            /\ \A k \in 1..Len(processed) :
                  processed[k].type = "unchanged" => ~processed[k].hasWordDiff

\* Two removed lines against one added line: one pair and one excess line.
C22_Witness ==
    /\ compared
    /\ LET ops == LineScript
       IN  [k \in 1..Len(ops) |-> ops[k].type] = <<"removed", "removed", "added">>
    /\ [k \in 1..Len(processed) |-> <<processed[k].type, processed[k].hasWordDiff>>]
          = <<<<"removed", TRUE>>, <<"added", TRUE>>, <<"removed", FALSE>>>>

----------------------------------------------------------------------------
(* getSecureRandomInt: rejection sampling *)

\* The largest multiple of max among the raw values 0..RawMax.
LargestMultiple(max) == CHOOSE m \in (RawMax - max + 1)..RawMax : m % max = 0

\* Index of the first raw value of the tape below lim.
FirstBelow(tape, lim) ==
    CHOOSE k \in 1..Len(tape) : tape[k] < lim /\ \A h \in 1..(k - 1) : tape[h] >= lim

\* The raw values that a call with argument max accepts and reduces to v.
AcceptedFor(max, v) ==
    {r \in 0..RawMax : getSecureRandomInt(max, <<r, 0>>, 1) = [value |-> v, next |-> 2]}

\* C23: a call with argument max rejects exactly the raw values greater than
\* or equal to the largest multiple of max among the raw values and returns
\* the first other value modulo max; every result in 0..max-1 can be
\* returned, and the result returned is produced by as many accepted raw
\* values as any other: the largest multiple divided by max.
C23_BiasFree ==
    sampleOut.next # 0 =>
        LET lim == LargestMultiple(sampleMax)
            k   == FirstBelow(sampleTape, lim)
        IN  /\ sampleOut.next = k + 1
            /\ sampleOut.value = sampleTape[k] % sampleMax
            /\ sampleOut.value \in 0..(sampleMax - 1)
            /\ \A v \in 0..(sampleMax - 1) :
                  getSecureRandomInt(sampleMax, <<v, 0>>, 1).value = v
            /\ Cardinality(AcceptedFor(sampleMax, sampleOut.value)) = lim \div sampleMax

\* A call with the full charset that rejects two raw values.
C23_Witness ==
    /\ sampleMax = Len(UPPERCASE) + Len(LOWERCASE) + Len(NUMBERS) + Len(SYMBOLS)
    /\ sampleTape[1] >= RejectLimit(sampleMax)
    /\ sampleTape[2] = RawMax
    /\ sampleOut = [value |-> 0, next |-> 4]

----------------------------------------------------------------------------
(* useQRCode: superseded generations *)

\* No timer is pending and no toDataURL call is in flight.
QrQuiescent == qrTimer = <<>> /\ qrFlight = <<>>

\* C24: once every timer has expired and every generation has completed,
\* qrDataUrl is the data URL of the latest input, and is empty when the
\* latest input is blank (checked where no error is shown): the outcome of
\* a generation superseded while in flight is never applied.
C24_LatestInputWins ==
    (QrQuiescent /\ qrError = "null") =>
        qrDataUrl = (IF IsBlank(qrInput[1]) THEN <<>> ELSE DataUrl(qrInput))

----------------------------------------------------------------------------
(* WordFrequency: run ids *)

\* C25: run ids strictly increase; a run commits stats and engine only when
\* its id is the latest id, so the stats shown are those of the latest run
\* that executed; a run whose timer was cleared within the debounce window
\* never executes, and every run that executes is the latest and commits.
C25_OnlyLatestRunCommits ==
    /\ \A run \in wfTimers : run.id = wfRunId
    /\ \A k \in 1..Len(wfExecuted) :
          /\ wfExecuted[k].committed <=> wfExecuted[k].id = wfExecuted[k].latest
          /\ wfExecuted[k].committed
          /\ wfExecuted[k].id \notin wfCleared
          /\ wfExecuted[k].id <= wfRunId
          /\ k > 1 => wfExecuted[k - 1].id < wfExecuted[k].id
    /\ (wfExecuted # <<>> /\ wfTimers = {} /\ ~IsBlank(wfInput[1])) =>
          /\ wfStats = <<"stats", wfInput[1], wfInput[2], wfInput[3]>>
          /\ ~wfAnalyzing

\* Run 1 executed, run 2 was superseded within the window, run 3 executed.
C25_Witness ==
    /\ [k \in 1..Len(wfExecuted) |-> wfExecuted[k].id] = <<1, 3>>
    /\ wfCleared = {2}
    /\ wfStats # <<>>

----------------------------------------------------------------------------
(* JSONFormatter: operations overtaken by an edit *)

\* C26: a deferred operation whose snapshot is no longer the editor text
\* when its callback runs leaves the editor text and the error message
\* exactly as they were.
C26_StaleOperationChangesNothing ==
    \A k \in 1..Len(jfRan) : jfRan[k].stale => jfRan[k].kept

----------------------------------------------------------------------------
(* computeDiff: order inside a changed block *)

ScriptTypes == [k \in 1..Len(script) |-> script[k].type]

\* C27: in the script an added op is never immediately followed by a
\* removed op, so every maximal run of ops that are not unchanged is its
\* removed ops followed by its added ops, and the collect-removals-then-
\* additions step takes each changed block whole.
C27_AddedNeverBeforeRemoved ==
    aligned =>
        /\ \A k \in 1..(Len(script) - 1) :
              ScriptTypes[k] = "added" => ScriptTypes[k + 1] # "removed"
        /\ \A k \in 1..Len(script) :
              BlockStart(script, k) =>
                  LET nr == RunOfType(script, k, "removed")
                      na == RunOfType(script, k + nr, "added")
                  IN  k + nr + na > Len(script) \/ ScriptTypes[k + nr + na] = "unchanged"

\* A block of two removed ops and one added op after an unchanged op.
C27_Witness ==
    /\ aligned
    /\ ScriptTypes = <<"unchanged", "removed", "removed", "added">>

----------------------------------------------------------------------------
(* TextDiff: what the result keeps of the two texts *)

IsNewSideLine(line) == line.type # "removed"

IsOldSideLine(line) == line.type # "added"

LineValues(lines) == [k \in 1..Len(lines) |-> lines[k].value]

\* lines.join("\n")
RECURSIVE JoinLF(_)
JoinLF(lines) ==
    IF Len(lines) = 1 THEN lines[1]
    ELSE lines[1] \o <<"LF">> \o JoinLF(Tail(lines))

\* The text with every CR that stands before an LF taken out.
RECURSIVE DropCrBeforeLf(_)
DropCrBeforeLf(text) ==
    IF text = <<>> THEN <<>>
    ELSE IF Len(text) >= 2 /\ text[1] = "CR" /\ text[2] = "LF" THEN DropCrBeforeLf(Tail(text))
    ELSE <<Head(text)>> \o DropCrBeforeLf(Tail(text))

\* C28: unless both texts are empty, the unchanged and added lines of the
\* result, in order, are the lines of newText (split on LF or CR LF); the
\* unchanged and removed lines are as many as the lines of oldText; and an
\* unchanged line shows the text of the new side.
C28_ResultKeepsNewSide ==
    (compared /\ (oldText # <<>> \/ newText # <<>>)) =>
        LET newSide == LineValues(SelectSeq(processed, IsNewSideLine))
            oldSide == SelectSeq(processed, IsOldSideLine)
            kept    == SelectSeq(LineScript, NotAdded)
        IN  /\ newSide = SplitLines(newText)
            /\ JoinLF(newSide) = DropCrBeforeLf(newText)
            /\ Len(oldSide) = LineCount(oldText)
            /\ Len(oldSide) = Len(kept)
            /\ \A k \in 1..Len(oldSide) :
                  oldSide[k].value = IF kept[k].type = "unchanged"
                                     THEN kept[k].newItem[1].render
                                     ELSE kept[k].oldItem[1].render

\* Two lines whose keys match under ignoreCase and whose texts differ: the
\* result holds the new line only, so the old text cannot be read from it.
C28_Witness ==
    /\ compared
    /\ oldText = <<"a", "a">> /\ newText = <<"A", "a">>
    /\ LineValues(processed) = <<<<"A", "a">>>>
    /\ processed[1].type = "unchanged"

----------------------------------------------------------------------------
(* TextDiff: one empty text *)

\* C29: an empty text counts as one empty line.  With oldText empty,
\* newText "abc" and all flags off the result is a removed line with empty
\* text and an empty span list, then an added line "abc".  With exactly one
\* text empty, the empty side has exactly one line in the result.  The
\* result is empty if and only if both texts are empty.
C29_EmptySideIsOneLine ==
    compared =>
        /\ processed = <<>> <=> (oldText = <<>> /\ newText = <<>>)
        /\ (oldText = <<>> /\ newText = Abc /\ settings = AllOff) =>
              processed = <<SpannedLine("removed", <<>>, <<>>),
                            SpannedLine("added", Abc, <<SpanOf("added", Abc)>>)>>
        /\ (oldText = <<>> /\ newText # <<>>) =>
              Len(SelectSeq(processed, IsOldSideLine)) = 1
        /\ (newText = <<>> /\ oldText # <<>>) =>
              LineValues(SelectSeq(processed, IsNewSideLine)) = <<<<>>>>

C29_Witness ==
    /\ compared
    /\ oldText = <<>> /\ newText = Abc /\ settings = AllOff
    /\ Len(processed) = 2
    /\ processed[1].type = "removed" /\ processed[1].hasWordDiff

----------------------------------------------------------------------------
(* PasswordGen: the guard against deselecting every class *)

\* C30: from a state with a class active, whatever handleToggleOption calls
\* are made, from the latest render or from one that has updates queued,
\* a class stays active, and the password shown after the effect has run is
\* not empty.
C30_SomeClassStaysActive ==
    /\ isValid(options)
    /\ (mounted /\ tgQueued = 0) => password # <<>>

====
